---------------------------- MODULE Spec2Model ----------------------------
(***************************************************************************)
(* A model of the KozPhotoEditor crop/transform editor: the crop-rect      *)
(* engine (core/crop.ts, core/geometry.ts), the undo/redo history          *)
(* (core/history.ts), the export pipeline (core/transform.ts) and the      *)
(* editor's state handlers (App.tsx).                                      *)
(*                                                                         *)
(* Numbers.  The source computes with JavaScript numbers.  The model       *)
(* computes with exact fixed-point numbers: every length and coordinate is *)
(* an integer count of 1/Unit pixel.  Unit is chosen so that every         *)
(* division the engine performs on the inputs drawn below (halving, and    *)
(* multiplying or dividing by an aspect ratio with numerator and           *)
(* denominator in 1..3) is exact.                                          *)
(***************************************************************************)
EXTENDS Integers, Sequences, FiniteSets, TLC

VARIABLES
    image,              \* App: the loaded image (Null before the first load)
    history,            \* App: HistoryState<TransformState>
    cropRect,           \* App: the draft crop rect
    allowOutside,       \* App: the allowOutside switch
    adjustBaseRef,      \* App: adjustBaseRef.current
    straightenBaseRef,  \* App: straightenBaseRef.current
    exportCall,         \* App: the handleExport / exportTransformedImage call in flight
    lastOp,             \* App: the handler that ran last, and whether a redo was available to it
    gesture,            \* App: the slider gesture under way, as the user sees it
    steps,              \* App: handler runs and settled awaits so far
    hstate,     \* SpecHistory: the HistoryState under test
    timeline,   \* SpecHistory: the values v0..vk given to createHistory/pushHistory
    nUndo,      \* SpecHistory: undoHistory calls made
    nRedo,      \* SpecHistory: redoHistory calls made
    lastCall,   \* SpecHistory: the last call, with the state it was given
    rArgs,      \* engine specifications: the arguments of one engine call
    rOut        \* engine specifications: what it returned (Null before the call)

histVars   == <<hstate, timeline, nUndo, nRedo, lastCall>>
resizeVars == <<rArgs, rOut>>
appVars    == <<image, history, cropRect, allowOutside, adjustBaseRef,
                straightenBaseRef, exportCall, lastOp, gesture, steps>>
vars       == <<appVars, histVars, resizeVars>>

-----------------------------------------------------------------------------
(* Values *)

\* null / undefined
Null == [null |-> TRUE]

\* One pixel, in model units: 24 = 2 * 2 * 2 * 3 (see "Numbers" above).
Unit == 2 * 2 * 2 * 3

Px(n) == n * Unit

Abs(v) == IF v < 0 THEN -v ELSE v
Min(a, b) == IF a < b THEN a ELSE b
Max(a, b) == IF a > b THEN a ELSE b
Half(v) == v \div 2

\* Math.round: the nearest integer pixel count, halves rounded up.
Round(v) == (2 * v + Unit) \div (2 * Unit)

Rect(x, y, w, h0) == [x |-> x, y |-> y, w |-> w, h |-> h0]

-----------------------------------------------------------------------------
(* core/geometry.ts *)

clamp(value, min, max) == Min(max, Max(min, value))

rectCenter(rect) == [x |-> rect.x + Half(rect.w), y |-> rect.y + Half(rect.h)]

\* A mutant of clampRectInside: the size is not capped to the bounds size.
clampRectInsideNoCap(rect, bounds) ==
    Rect(clamp(rect.x, bounds.x, bounds.x + bounds.w - rect.w),
         clamp(rect.y, bounds.y, bounds.y + bounds.h - rect.h),
         rect.w, rect.h)

clampRectInside(rect, bounds) ==
    LET w == IF rect.w > bounds.w THEN bounds.w ELSE rect.w
        h0 == IF rect.h > bounds.h THEN bounds.h ELSE rect.h
    IN  Rect(clamp(rect.x, bounds.x, bounds.x + bounds.w - w),
             clamp(rect.y, bounds.y, bounds.y + bounds.h - h0),
             w, h0)

clampRectEdges(rect, bounds) ==
    LET left   == Max(rect.x, bounds.x)
        top    == Max(rect.y, bounds.y)
        right  == Min(rect.x + rect.w, bounds.x + bounds.w)
        bottom == Min(rect.y + rect.h, bounds.y + bounds.h)
    IN  Rect(left, top, Max(Px(1), right - left), Max(Px(1), bottom - top))

-----------------------------------------------------------------------------
(* core/crop.ts *)

MIN_SIZE == Px(1)

\* A Handle is the sequence of its direction letters: "ne" is <<"n", "e">>.
Handles == { <<"n">>, <<"s">>, <<"e">>, <<"w">>,
             <<"n", "e">>, <<"n", "w">>, <<"s", "e">>, <<"s", "w">> }

handleHas(handle, dir) == \E i \in 1..Len(handle) : handle[i] = dir

\* getActiveEdges taking both edges of a touched axis as active, symmetric
\* or not
getActiveEdgesBoth(handle, symmetric) ==
    LET affectsX == handleHas(handle, "e") \/ handleHas(handle, "w")
        affectsY == handleHas(handle, "n") \/ handleHas(handle, "s")
    IN  [left     |-> affectsX,
         right    |-> affectsX,
         top      |-> affectsY,
         bottom   |-> affectsY,
         affectsX |-> affectsX,
         affectsY |-> affectsY]

getActiveEdges(handle, symmetric) ==
    LET affectsX == handleHas(handle, "e") \/ handleHas(handle, "w")
        affectsY == handleHas(handle, "n") \/ handleHas(handle, "s")
    IN  [left     |-> affectsX /\ (handleHas(handle, "w") \/ symmetric),
         right    |-> affectsX /\ (handleHas(handle, "e") \/ symmetric),
         top      |-> affectsY /\ (handleHas(handle, "n") \/ symmetric),
         bottom   |-> affectsY /\ (handleHas(handle, "s") \/ symmetric),
         affectsX |-> affectsX,
         affectsY |-> affectsY]

Edges(left, right, top, bottom) ==
    [left |-> left, right |-> right, top |-> top, bottom |-> bottom]

\* A mutant of ensureMinSize: the minimum size is not enforced.
ensureMinSizeOff(left, right, top, bottom, active) ==
    Edges(left, right, top, bottom)

ensureMinSize(left, right, top, bottom, active) ==
    LET width  == right - left
        height == bottom - top
        cx     == Half(left + right)
        cy     == Half(top + bottom)
        newLeft ==
            IF width >= MIN_SIZE THEN left
            ELSE IF active.left /\ ~active.right THEN right - MIN_SIZE
            ELSE IF active.right /\ ~active.left THEN left
            ELSE cx - Half(MIN_SIZE)
        newRight ==
            IF width >= MIN_SIZE THEN right
            ELSE IF active.left /\ ~active.right THEN right
            ELSE IF active.right /\ ~active.left THEN left + MIN_SIZE
            ELSE cx + Half(MIN_SIZE)
        newTop ==
            IF height >= MIN_SIZE THEN top
            ELSE IF active.top /\ ~active.bottom THEN bottom - MIN_SIZE
            ELSE IF active.bottom /\ ~active.top THEN top
            ELSE cy - Half(MIN_SIZE)
        newBottom ==
            IF height >= MIN_SIZE THEN bottom
            ELSE IF active.top /\ ~active.bottom THEN bottom
            ELSE IF active.bottom /\ ~active.top THEN top + MIN_SIZE
            ELSE cy + Half(MIN_SIZE)
    IN  Edges(newLeft, newRight, newTop, newBottom)

\* An aspect ratio is the fraction num/den (den > 0); 0 and negative ratios
\* have num <= 0.
Ratio(num, den) == [num |-> num, den |-> den]
TimesAspect(v, aspect) == (v * aspect.num) \div aspect.den
OverAspect(v, aspect)  == (v * aspect.den) \div aspect.num

applyAspectRatio(left, right, top, bottom, handle, aspect, symmetric) ==
    LET hasE == handleHas(handle, "e")
        hasW == handleHas(handle, "w")
        hasN == handleHas(handle, "n")
        hasS == handleHas(handle, "s")
        isCorner == (hasE \/ hasW) /\ (hasN \/ hasS)
        width  == Abs(right - left)
        height == Abs(bottom - top)
        \* width / height > aspect, with height >= 0 and aspect > 0
        wider == width * aspect.den > height * aspect.num
        newW == IF isCorner THEN (IF wider THEN TimesAspect(height, aspect) ELSE width)
                ELSE IF hasE \/ hasW THEN width
                ELSE IF hasN \/ hasS THEN TimesAspect(height, aspect)
                ELSE width
        newH == IF isCorner THEN (IF wider THEN height ELSE OverAspect(width, aspect))
                ELSE IF hasE \/ hasW THEN OverAspect(width, aspect)
                ELSE IF hasN \/ hasS THEN height
                ELSE height
        cx == Half(left + right)
        cy == Half(top + bottom)
        \* the anchored (not symmetric) case
        l1 == IF hasW /\ ~hasE THEN right - newW ELSE left
        r1 == IF hasE /\ ~hasW THEN left + newW ELSE right
        t1 == IF hasN /\ ~hasS THEN bottom - newH ELSE top
        b1 == IF hasS /\ ~hasN THEN top + newH ELSE bottom
        cy1 == Half(t1 + b1)
        t2 == IF ~isCorner /\ (hasE \/ hasW) THEN cy1 - Half(newH) ELSE t1
        b2 == IF ~isCorner /\ (hasE \/ hasW) THEN cy1 + Half(newH) ELSE b1
        cx1 == Half(l1 + r1)
        l2 == IF ~isCorner /\ (hasN \/ hasS) THEN cx1 - Half(newW) ELSE l1
        r2 == IF ~isCorner /\ (hasN \/ hasS) THEN cx1 + Half(newW) ELSE r1
    IN  IF symmetric
        THEN Edges(cx - Half(newW), cx + Half(newW), cy - Half(newH), cy + Half(newH))
        ELSE Edges(l2, r2, t2, b2)

\* outside is the allowOutside argument
moveCropRect(rect, delta, bounds, outside) ==
    LET moved == Rect(rect.x + delta.x, rect.y + delta.y, rect.w, rect.h)
    IN  IF ~outside /\ bounds # Null THEN clampRectInside(moved, bounds) ELSE moved

\* resizeAspect taking the size of the ratio: Math.abs(modifiers.aspectRatio)
resizeAspectAbs(modifiers) ==
    IF modifiers.square THEN Ratio(1, 1)
    ELSE IF modifiers.aspectRatio = Null THEN Null
    ELSE Ratio(Abs(modifiers.aspectRatio.num), modifiers.aspectRatio.den)

\* modifiers.square ? 1 : modifiers.aspectRatio ?? null
resizeAspect(modifiers) ==
    IF modifiers.square THEN Ratio(1, 1) ELSE modifiers.aspectRatio

resizeCropRect(rect, handle, delta, modifiers, bounds, outside) ==
    LET symmetric == modifiers.symmetric
        aspect == resizeAspect(modifiers)
        hasE == handleHas(handle, "e")
        hasW == handleHas(handle, "w")
        hasN == handleHas(handle, "n")
        hasS == handleHas(handle, "s")
        left0   == rect.x
        right0  == rect.x + rect.w
        top0    == rect.y
        bottom0 == rect.y + rect.h
        \* a handle names at most one of e/w and at most one of n/s
        left1 == IF symmetric
                 THEN left0 - (IF hasE THEN delta.x ELSE 0) + (IF hasW THEN delta.x ELSE 0)
                 ELSE left0 + (IF hasW THEN delta.x ELSE 0)
        right1 == IF symmetric
                  THEN right0 + (IF hasE THEN delta.x ELSE 0) - (IF hasW THEN delta.x ELSE 0)
                  ELSE right0 + (IF hasE THEN delta.x ELSE 0)
        top1 == IF symmetric
                THEN top0 - (IF hasS THEN delta.y ELSE 0) + (IF hasN THEN delta.y ELSE 0)
                ELSE top0 + (IF hasN THEN delta.y ELSE 0)
        bottom1 == IF symmetric
                   THEN bottom0 + (IF hasS THEN delta.y ELSE 0) - (IF hasN THEN delta.y ELSE 0)
                   ELSE bottom0 + (IF hasS THEN delta.y ELSE 0)
        active == getActiveEdges(handle, symmetric)
        e2 == ensureMinSize(left1, right1, top1, bottom1, active)
        e3 == IF aspect # Null /\ aspect.num > 0
              THEN applyAspectRatio(e2.left, e2.right, e2.top, e2.bottom,
                                    handle, aspect, symmetric)
              ELSE e2
        e4 == ensureMinSize(e3.left, e3.right, e3.top, e3.bottom, active)
        nextRect == Rect(e4.left, e4.top, e4.right - e4.left, e4.bottom - e4.top)
    IN  IF ~outside /\ bounds # Null
        THEN clampRectEdges(nextRect, bounds)
        ELSE nextRect

-----------------------------------------------------------------------------
(* core/geometry.ts: the rect between two points *)

rectFromPoints(a, b) ==
    Rect(Min(a.x, b.x), Min(a.y, b.y), Abs(b.x - a.x), Abs(b.y - a.y))

\* w / h > aspect, for w, h >= 0: w / 0 is Infinity for w > 0 and NaN for
\* w = 0, and NaN > aspect is false
QuotientExceeds(w, h0, aspect) ==
    IF h0 = 0 THEN w > 0 ELSE w * aspect.den > aspect.num * h0

\* rectFromPointsWithAspect anchored at the left and top of the two points
\* whatever the direction of the drag
rectFromPointsWithAspectFromMin(a, b, aspect) ==
    LET w0 == Abs(b.x - a.x)
        h0 == Abs(b.y - a.y)
        constrained == aspect # Null /\ aspect.num > 0
        w == IF constrained /\ QuotientExceeds(w0, h0, aspect)
             THEN TimesAspect(h0, aspect) ELSE w0
        h1 == IF constrained /\ ~QuotientExceeds(w0, h0, aspect)
              THEN OverAspect(w0, aspect) ELSE h0
    IN  Rect(Min(a.x, b.x), Min(a.y, b.y), w, h1)

rectFromPointsWithAspect(a, b, aspect) ==
    LET dx == b.x - a.x
        dy == b.y - a.y
        w0 == Abs(dx)
        h0 == Abs(dy)
        constrained == aspect # Null /\ aspect.num > 0
        w == IF constrained /\ QuotientExceeds(w0, h0, aspect)
             THEN TimesAspect(h0, aspect) ELSE w0
        h1 == IF constrained /\ ~QuotientExceeds(w0, h0, aspect)
              THEN OverAspect(w0, aspect) ELSE h0
    IN  Rect(IF dx >= 0 THEN a.x ELSE a.x - w,
             IF dy >= 0 THEN a.y ELSE a.y - h1,
             w, h1)

-----------------------------------------------------------------------------
(* core/snap.ts *)

makeTargets(size, offset) ==
    << [value |-> offset, kind |-> "edge"],
       [value |-> offset + size \div 3, kind |-> "third"],
       [value |-> offset + (2 * size) \div 3, kind |-> "third"],
       [value |-> offset + Half(size), kind |-> "center"],
       [value |-> offset + size, kind |-> "edge"] >>

\* The two nested loops of chooseSnap from their n-th iteration on: positions
\* in the outer loop, targets in the inner one, best as it stands before it.
RECURSIVE chooseSnapFrom(_, _, _, _, _)
chooseSnapFrom(positions, targets, threshold, n, best) ==
    IF n > Len(positions) * Len(targets) THEN best
    ELSE LET pos == positions[((n - 1) \div Len(targets)) + 1]
             target == targets[((n - 1) % Len(targets)) + 1]
             delta == target.value - pos.value
             next == IF /\ Abs(delta) <= threshold
                        /\ (best = Null \/ Abs(delta) < Abs(best.delta))
                     THEN [key |-> pos.key, delta |-> delta, kind |-> target.kind]
                     ELSE best
         IN  chooseSnapFrom(positions, targets, threshold, n + 1, next)

\* chooseSnap keeping the first pair within threshold, whatever comes after
chooseSnapFirstInRange(positions, targets, threshold) ==
    LET T == Len(targets)
        posAt(n) == positions[((n - 1) \div T) + 1]
        targetAt(n) == targets[((n - 1) % T) + 1]
        inRange == { n \in 1..(Len(positions) * T) :
                       Abs(targetAt(n).value - posAt(n).value) <= threshold }
    IN  IF inRange = {} THEN Null
        ELSE LET n == CHOOSE m \in inRange : \A k \in inRange : m <= k
             IN  [key |-> posAt(n).key,
                  delta |-> targetAt(n).value - posAt(n).value,
                  kind |-> targetAt(n).kind]

\* chooseSnap without the threshold test: the nearest pair at any distance
chooseSnapAnyDistance(positions, targets, threshold) ==
    chooseSnapFrom(positions, targets, Px(1000) + Abs(threshold), 1, Null)

chooseSnap(positions, targets, threshold) ==
    chooseSnapFrom(positions, targets, threshold, 1, Null)

\* the handle argument left out (undefined)
NoHandle == << >>

\* mode is "move" or "resize"; handle is a Handle or NoHandle
snapRect(rect, bounds, threshold, mode, handle) ==
    LET left == rect.x
        right == rect.x + rect.w
        top == rect.y
        bottom == rect.y + rect.h
        centerX == rect.x + Half(rect.w)
        centerY == rect.y + Half(rect.h)
        xTargets == makeTargets(bounds.w, bounds.x)
        yTargets == makeTargets(bounds.h, bounds.y)
        activeX ==
            IF mode = "move"
            THEN << [key |-> "left", value |-> left],
                    [key |-> "centerX", value |-> centerX],
                    [key |-> "right", value |-> right] >>
            ELSE IF handle # NoHandle
            THEN (IF handleHas(handle, "w")
                  THEN << [key |-> "left", value |-> left] >> ELSE << >>)
                 \o (IF handleHas(handle, "e")
                     THEN << [key |-> "right", value |-> right] >> ELSE << >>)
            ELSE << >>
        activeY ==
            IF mode = "move"
            THEN << [key |-> "top", value |-> top],
                    [key |-> "centerY", value |-> centerY],
                    [key |-> "bottom", value |-> bottom] >>
            ELSE IF handle # NoHandle
            THEN (IF handleHas(handle, "n")
                  THEN << [key |-> "top", value |-> top] >> ELSE << >>)
                 \o (IF handleHas(handle, "s")
                     THEN << [key |-> "bottom", value |-> bottom] >> ELSE << >>)
            ELSE << >>
        xSnap == chooseSnap(activeX, xTargets, threshold)
        ySnap == chooseSnap(activeY, yTargets, threshold)
        xGuide ==
            IF xSnap = Null THEN << >>
            ELSE << [axis |-> "x",
                     value |-> xSnap.delta
                               + (IF xSnap.key = "left" THEN left
                                  ELSE IF xSnap.key = "right" THEN right
                                  ELSE centerX),
                     kind |-> xSnap.kind] >>
        yGuide ==
            IF ySnap = Null THEN << >>
            ELSE << [axis |-> "y",
                     value |-> ySnap.delta
                               + (IF ySnap.key = "top" THEN top
                                  ELSE IF ySnap.key = "bottom" THEN bottom
                                  ELSE centerY),
                     kind |-> ySnap.kind] >>
        x == IF xSnap = Null THEN rect.x
             ELSE IF mode = "move" THEN rect.x + xSnap.delta
             ELSE IF xSnap.key = "left" THEN rect.x + xSnap.delta
             ELSE rect.x
        w == IF xSnap = Null THEN rect.w
             ELSE IF mode = "move" THEN rect.w
             ELSE IF xSnap.key = "left" THEN right - x
             ELSE IF xSnap.key = "right" THEN right + xSnap.delta - x
             ELSE rect.w
        y == IF ySnap = Null THEN rect.y
             ELSE IF mode = "move" THEN rect.y + ySnap.delta
             ELSE IF ySnap.key = "top" THEN rect.y + ySnap.delta
             ELSE rect.y
        h0 == IF ySnap = Null THEN rect.h
              ELSE IF mode = "move" THEN rect.h
              ELSE IF ySnap.key = "top" THEN bottom - y
              ELSE IF ySnap.key = "bottom" THEN bottom + ySnap.delta - y
              ELSE rect.h
    IN  [rect |-> Rect(x, y, w, h0), guides |-> xGuide \o yGuide]

-----------------------------------------------------------------------------
(* core/history.ts *)

createHistory(present) == [past |-> <<>>, present |-> present, future |-> <<>>]

\* A mutant of pushHistory: the redo chain survives a commit.
pushHistoryKeepsFuture(state, present) ==
    [past |-> Append(state.past, state.present),
     present |-> present,
     future |-> state.future]

pushHistory(state, present) ==
    [past |-> Append(state.past, state.present),
     present |-> present,
     future |-> <<>>]

\* A mutant of undoHistory: it restores the oldest entry of past.
undoHistoryOldest(state) ==
    IF Len(state.past) = 0 THEN state
    ELSE [past |-> Tail(state.past),
          present |-> Head(state.past),
          future |-> <<state.present>> \o state.future]

undoHistory(state) ==
    IF Len(state.past) = 0 THEN state
    ELSE [past |-> SubSeq(state.past, 1, Len(state.past) - 1),
          present |-> state.past[Len(state.past)],
          future |-> <<state.present>> \o state.future]

\* A mutant of redoHistory: with nothing to redo it still records the present.
redoHistoryAlwaysRecords(state) ==
    IF Len(state.future) = 0
    THEN [past |-> Append(state.past, state.present),
          present |-> state.present,
          future |-> <<>>]
    ELSE [past |-> Append(state.past, state.present),
          present |-> Head(state.future),
          future |-> Tail(state.future)]

redoHistory(state) ==
    IF Len(state.future) = 0 THEN state
    ELSE [past |-> Append(state.past, state.present),
          present |-> Head(state.future),
          future |-> Tail(state.future)]

-----------------------------------------------------------------------------
(* core/history.ts, with the identity of its objects: a heap is the sequence *)
(* of the objects allocated so far and a reference is a place in it.  An    *)
(* array is [items |-> <<..>>]; a HistoryState is [past |-> reference,      *)
(* present |-> value, future |-> reference].                                *)

\* an object or array literal, a spread into a new array, or slice()
alloc(heap, obj) == [heap |-> Append(heap, obj), ref |-> Len(heap) + 1]

pushHistoryOnHeap(heap, state, present) ==
    LET past == alloc(heap, [items |-> Append(heap[heap[state].past].items,
                                              heap[state].present)])
        future == alloc(past.heap, [items |-> << >>])
    IN  alloc(future.heap, [past |-> past.ref, present |-> present, future |-> future.ref])

\* undoHistory taking the previous value with state.past.pop() and keeping
\* the array
undoHistoryPops(heap, state) ==
    LET items == heap[heap[state].past].items
    IN  IF Len(items) = 0 THEN [heap |-> heap, ref |-> state]
        ELSE LET previous == items[Len(items)]
                 popped == [heap EXCEPT ![heap[state].past] =
                                [items |-> SubSeq(items, 1, Len(items) - 1)]]
                 future == alloc(popped, [items |-> <<heap[state].present>>
                                                     \o heap[heap[state].future].items])
             IN  alloc(future.heap, [past |-> heap[state].past, present |-> previous,
                                     future |-> future.ref])

undoHistoryOnHeap(heap, state) ==
    LET items == heap[heap[state].past].items
    IN  IF Len(items) = 0 THEN [heap |-> heap, ref |-> state]
        ELSE LET previous == items[Len(items)]
                 past == alloc(heap, [items |-> SubSeq(items, 1, Len(items) - 1)])
                 future == alloc(past.heap, [items |-> <<heap[state].present>>
                                                        \o heap[heap[state].future].items])
             IN  alloc(future.heap, [past |-> past.ref, present |-> previous,
                                     future |-> future.ref])

redoHistoryOnHeap(heap, state) ==
    LET items == heap[heap[state].future].items
    IN  IF Len(items) = 0 THEN [heap |-> heap, ref |-> state]
        ELSE LET next == items[1]
                 future == alloc(heap, [items |-> SubSeq(items, 2, Len(items))])
                 past == alloc(future.heap,
                               [items |-> Append(heap[heap[state].past].items,
                                                 heap[state].present)])
             IN  alloc(past.heap, [past |-> past.ref, present |-> next,
                                   future |-> future.ref])

-----------------------------------------------------------------------------
(* core/adjustments.ts *)

\* Adjustment values are counted in units of EPSILON (0.0001): the sliders'
\* step of 0.01 is 100 units.
EPSILON == 1

DEFAULT_ADJUSTMENTS == [brightness |-> 0, contrast |-> 0, curve |-> 0]

\* { ...DEFAULT_ADJUSTMENTS, ...adjustments }
normalizeAdjustments(adjustments) ==
    IF adjustments = Null THEN DEFAULT_ADJUSTMENTS
    ELSE [k \in DOMAIN DEFAULT_ADJUSTMENTS |->
            IF k \in DOMAIN adjustments THEN adjustments[k] ELSE DEFAULT_ADJUSTMENTS[k]]

\* A field of an Adjustments object holds a number or, in a
\* Partial<Adjustments>, undefined.  undefined and NaN are modelled as two
\* numbers that no slider value and no computation of the model reaches.
undefined == -(2 ^ 20)
NaN == 1 - (2 ^ 20)

\* Math.abs: ToNumber(undefined) is NaN
MathAbs(v) == IF v = undefined \/ v = NaN THEN NaN ELSE Abs(v)

\* a < b on numbers: false when either is NaN
LessThan(a, b) == a # NaN /\ b # NaN /\ a < b

isDefaultAdjustments(adjustments) ==
    LET normalized == normalizeAdjustments(adjustments)
    IN  /\ LessThan(MathAbs(normalized.brightness), EPSILON)
        /\ LessThan(MathAbs(normalized.contrast), EPSILON)
        /\ LessThan(MathAbs(normalized.curve), EPSILON)

-----------------------------------------------------------------------------
(* core/crop.ts and core/geometry.ts: orientation *)

\* JavaScript's %: the remainder has the sign of the dividend.
Rem(a, b) == IF a >= 0 THEN a % b ELSE -((-a) % b)

getOrientedSize(width, height, rotation) ==
    IF rotation = 90 \/ rotation = 270
    THEN [w |-> height, h |-> width]
    ELSE [w |-> width, h |-> height]

\* A mutant of rotateRect: the 90-degree case keeps y.
rotateRectKeepsY(rect, rotation, width, height) ==
    LET rot == Rem(Rem(rotation, 360) + 360, 360)
    IN  CASE rot = 90  -> Rect(height - (rect.y + rect.h), rect.y, rect.h, rect.w)
          [] rot = 180 -> Rect(width - (rect.x + rect.w), height - (rect.y + rect.h),
                               rect.w, rect.h)
          [] rot = 270 -> Rect(rect.y, width - (rect.x + rect.w), rect.h, rect.w)
          [] OTHER     -> rect

\* A mutant of rotateRect: the 270-degree case keeps w and h.
rotateRectNoSwap(rect, rotation, width, height) ==
    LET rot == Rem(Rem(rotation, 360) + 360, 360)
    IN  CASE rot = 90  -> Rect(height - (rect.y + rect.h), rect.x, rect.h, rect.w)
          [] rot = 180 -> Rect(width - (rect.x + rect.w), height - (rect.y + rect.h),
                               rect.w, rect.h)
          [] rot = 270 -> Rect(rect.y, width - (rect.x + rect.w), rect.w, rect.h)
          [] OTHER     -> rect

rotateRect(rect, rotation, width, height) ==
    LET rot == Rem(Rem(rotation, 360) + 360, 360)
    IN  CASE rot = 90  -> Rect(height - (rect.y + rect.h), rect.x, rect.h, rect.w)
          [] rot = 180 -> Rect(width - (rect.x + rect.w), height - (rect.y + rect.h),
                               rect.w, rect.h)
          [] rot = 270 -> Rect(rect.y, width - (rect.x + rect.w), rect.h, rect.w)
          [] OTHER     -> rect

\* unrotateRectToOriginal giving rotateRect the base size, not the oriented one
unrotateRectToOriginalBaseSize(rect, rotation, baseWidth, baseHeight) ==
    IF rotation = 0 THEN rect
    ELSE rotateRect(rect, 360 - rotation, baseWidth, baseHeight)

\* core/transform.ts
unrotateRectToOriginal(rect, rotation, baseWidth, baseHeight) ==
    IF rotation = 0 THEN rect
    ELSE LET oriented == getOrientedSize(baseWidth, baseHeight, rotation)
         IN  rotateRect(rect, 360 - rotation, oriented.w, oriented.h)

\* A straighten value is a whole number of steps of the angle theta whose
\* cosine is 40/41 and sine 9/41 (12.68 degrees); only -1, 0 and 1 steps are
\* used, so |cos| and |sin| are 1 and 0, or 40/41 and 9/41.
StraightenCos == [num |-> 40, den |-> 41]
StraightenSin == [num |-> 9, den |-> 41]

rotatedBounds(width, height, angleDeg) ==
    IF angleDeg = 0
    THEN [w |-> width, h |-> height]
    ELSE [w |-> (width * StraightenCos.num + height * StraightenSin.num)
                    \div StraightenCos.den,
          h |-> (width * StraightenSin.num + height * StraightenCos.num)
                    \div StraightenCos.den]

-----------------------------------------------------------------------------
(* App.tsx: values derived from the editor's state *)

initialTransform ==
    [cropRect |-> Null, rotation |-> 0, straighten |-> 0,
     flipH |-> FALSE, flipV |-> FALSE, adjustments |-> DEFAULT_ADJUSTMENTS]

\* normalizeRotation without the wrap into 0..359
normalizeRotationNoWrap(rotation) ==
    IF rotation = 90 \/ rotation = 180 \/ rotation = 270 \/ rotation = 360
    THEN rotation ELSE 0

normalizeRotation(rotation) ==
    LET normalized == Rem(Rem(rotation, 360) + 360, 360)
    IN  IF normalized = 90 \/ normalized = 180 \/ normalized = 270
        THEN normalized ELSE 0

\* the transform memo: history.present with its adjustments normalized
transformOf(hist) ==
    [hist.present EXCEPT !.adjustments = normalizeAdjustments(@)]

orientedSizeOf(img, hist) ==
    IF img = Null THEN [w |-> 0, h |-> 0]
    ELSE getOrientedSize(img.width, img.height, transformOf(hist).rotation)

displayBoundsOf(img, hist) ==
    IF img = Null THEN [w |-> 0, h |-> 0]
    ELSE rotatedBounds(orientedSizeOf(img, hist).w, orientedSizeOf(img, hist).h,
                       transformOf(hist).straighten)

\* appliedCropRect ?? { x: 0, y: 0, w: displayBounds.w, h: displayBounds.h }
cropBoundsOf(img, hist) ==
    IF transformOf(hist).cropRect # Null
    THEN transformOf(hist).cropRect
    ELSE Rect(0, 0, displayBoundsOf(img, hist).w, displayBoundsOf(img, hist).h)

\* The effect that re-clamps the draft crop rect after every render in which
\* allowOutside, cropRect, image, displayBounds or appliedCropRect changed.
\* clampRectEdges returns its own output unchanged, so one application is the
\* value the effect settles on.
clampDraftEffect(draft, img, hist, allow) ==
    IF ~allow /\ draft # Null /\ img # Null
    THEN clampRectEdges(draft, cropBoundsOf(img, hist))
    ELSE draft

\* A mutant of the updater of commitAdjustments: the entry added to past is
\* the live present, not the gesture's base.
commitAdjustmentsRecordsPresent(prev, base) ==
    IF base = Null THEN prev
    ELSE IF normalizeAdjustments(base.adjustments)
                = normalizeAdjustments(prev.present.adjustments) THEN prev
    ELSE [past |-> Append(prev.past, prev.present),
          present |-> prev.present,
          future |-> <<>>]

\* the updater that commitAdjustments gives to setHistory
commitAdjustmentsUpdater(prev, base) ==
    IF base = Null THEN prev
    ELSE LET baseAdj == normalizeAdjustments(base.adjustments)
             nextAdj == normalizeAdjustments(prev.present.adjustments)
             same == /\ baseAdj.brightness = nextAdj.brightness
                     /\ baseAdj.contrast = nextAdj.contrast
                     /\ baseAdj.curve = nextAdj.curve
         IN  IF same THEN prev
             ELSE [past |-> Append(prev.past, base),
                   present |-> prev.present,
                   future |-> <<>>]

\* the updater that updateAdjustments gives to setHistory; updates names one
\* slider (key) and its new value
updateAdjustmentsUpdater(prev, updates) ==
    [past |-> prev.past,
     present |-> [prev.present EXCEPT
                    !.adjustments = [normalizeAdjustments(@) EXCEPT
                                        ![updates.key] = updates.value]],
     future |-> <<>>]

\* the updater of updateTransform({ straighten: value })
updateTransformUpdater(prev, value) ==
    [past |-> prev.past,
     present |-> [prev.present EXCEPT
                    !.adjustments = normalizeAdjustments(@),
                    !.straighten = value],
     future |-> <<>>]

\* the updater that commitStraighten gives to setHistory
commitStraightenUpdater(prev, base) ==
    IF base = Null THEN prev
    ELSE IF base.straighten = prev.present.straighten THEN prev
    ELSE [past |-> Append(prev.past, base),
          present |-> prev.present,
          future |-> <<>>]

-----------------------------------------------------------------------------
(* core/transform.ts: exportTransformedImage *)

\* The call's position (pc), the locals the rest of the call reads, and how it
\* settled.  failure is what went wrong in the environment (a canvas without
\* a 2D context, an encoder without output, ...); pc and error are what the
\* code made of it.
NoExport ==
    [pc |-> "idle", hasCrop |-> FALSE, adjustedBitmap |-> "none",
     failure |-> "none", error |-> "none"]

reject(call, failure, error) ==
    [call EXCEPT !.pc = "rejected", !.failure = failure, !.error = error]

\* fullCanvas and cropCanvas: lines 49-74, up to the call of toBlob
drawCanvases(call, fullCtx, cropCtx) ==
    IF ~fullCtx THEN reject(call, "context", "Unable to create canvas context")
    ELSE IF call.hasCrop /\ ~cropCtx
         THEN reject(call, "context", "Unable to create canvas context")
    ELSE [call EXCEPT !.pc = "toBlob"]

\* the Blob an encoder produces
Blob == [type |-> "image/png"]

\* adjustedBitmap?.close?.()
closeAdjustedBitmap(call) ==
    [call EXCEPT !.adjustedBitmap = IF @ = "open" THEN "closed" ELSE @]

\* A mutant of the toBlob callback: a missing blob resolves the promise.
toBlobCallbackAlwaysResolves(call, result) ==
    [closeAdjustedBitmap(call) EXCEPT
        !.pc = "save", !.failure = IF result = Null THEN "encode" ELSE "none"]

\* (result) => (result ? resolve(result) : reject(new Error('Export failed'))),
\* then the finally block
toBlobCallback(call, result) ==
    IF result # Null
    THEN [closeAdjustedBitmap(call) EXCEPT !.pc = "save"]
    ELSE reject(closeAdjustedBitmap(call), "encode", "Export failed")

-----------------------------------------------------------------------------
(* Bounds of the checked inputs *)

MaxPos == 2         \* rect positions: 0..MaxPos pixels; resize bounds: MaxPos x MaxPos
MaxSize == 2        \* rect sizes: 1..MaxSize pixels
MaxDelta == 1       \* pointer deltas: -MaxDelta..MaxDelta pixels
MaxPushes == 3      \* pushHistory calls in one history run
MaxValue == 2       \* committed values of a history run: 0..MaxValue
MaxSteps == 5       \* handler runs and settled awaits in one session

-----------------------------------------------------------------------------
(* SpecResize: one call of resizeCropRect on every input of the bounded sets *)

InputRects ==
    { Rect(Px(x), Px(y), Px(w), Px(h0)) :
        x \in 0..MaxPos, y \in 0..MaxPos, w \in 1..MaxSize, h0 \in 1..MaxSize }

Deltas == { [x |-> Px(dx), y |-> Px(dy)] :
              dx \in -MaxDelta..MaxDelta, dy \in -MaxDelta..MaxDelta }

\* null, 0, a negative ratio, 1:2 and 3:2
AspectRatios == { Null, Ratio(0, 1), Ratio(-1, 1), Ratio(1, 2), Ratio(3, 2) }

Modifiers == [square : BOOLEAN, symmetric : BOOLEAN, aspectRatio : AspectRatios]

\* Rects of InputRects lie inside these bounds, stick out of them, or (at
\* x = MaxPos or y = MaxPos) lie outside them.
ResizeBounds == { Null, Rect(0, 0, Px(MaxPos), Px(MaxPos)) }

ResizeArgs ==
    [rect : InputRects, handle : Handles, delta : Deltas, modifiers : Modifiers,
     bounds : ResizeBounds, allowOutside : BOOLEAN]

CallResize ==
    /\ rOut = Null
    /\ rOut' = resizeCropRect(rArgs.rect, rArgs.handle, rArgs.delta, rArgs.modifiers,
                              rArgs.bounds, rArgs.allowOutside)
    /\ UNCHANGED <<rArgs, histVars, appVars>>

-----------------------------------------------------------------------------
(* SpecRotate: rotateRect on every input of the bounded sets, once alone and *)
(* once four times in a row by 90 degrees                                    *)

CanvasSizes == { Px(n) : n \in 1..(MaxPos + MaxSize) }

RotateArgs ==
    [rect : InputRects, rotation : {0, 90, 180, 270, -90},
     width : CanvasSizes, height : CanvasSizes]

CallRotate ==
    /\ rOut = Null
    /\ rOut' = [op |-> "rotateRect",
                rect |-> rotateRect(rArgs.rect, rArgs.rotation,
                                    rArgs.width, rArgs.height)]
    /\ UNCHANGED <<rArgs, histVars, appVars>>

\* rotateRect into the oriented canvas, then unrotateRectToOriginal
CallRotateAndBack ==
    /\ rOut = Null
    /\ rArgs.rotation \in {0, 90, 180, 270}
    /\ LET rotated == rotateRect(rArgs.rect, rArgs.rotation, rArgs.width, rArgs.height)
       IN  rOut' = [op |-> "unrotateRectToOriginal",
                    rotated |-> rotated,
                    rect |-> unrotateRectToOriginal(rotated, rArgs.rotation,
                                                    rArgs.width, rArgs.height)]
    /\ UNCHANGED <<rArgs, histVars, appVars>>

\* four quarter turns, each on the canvas the turn before it produced
CallRotateFourTimes ==
    /\ rOut = Null
    /\ LET W == rArgs.width
           H == rArgs.height
           r1 == rotateRect(rArgs.rect, 90, W, H)
           r2 == rotateRect(r1, 90, H, W)
           r3 == rotateRect(r2, 90, W, H)
           r4 == rotateRect(r3, 90, H, W)
       IN  rOut' = [op |-> "rotateRect x 4", rect |-> r4, turns |-> <<r1, r2, r3, r4>>]
    /\ UNCHANGED <<rArgs, histVars, appVars>>

-----------------------------------------------------------------------------
(* SpecMove: one call of moveCropRect on every input of the bounded sets *)

\* null, and bounds that hold a rect of InputRects or are smaller than it
MoveBounds ==
    {Null} \cup { Rect(Px(x), Px(y), Px(w), Px(h0)) :
                    x \in 0..1, y \in 0..1, w \in 1..(MaxPos + 1), h0 \in 1..(MaxPos + 1) }

MoveArgs ==
    [rect : InputRects, delta : Deltas, bounds : MoveBounds, allowOutside : BOOLEAN]

CallMove ==
    /\ rOut = Null
    /\ rOut' = [op |-> "moveCropRect",
                rect |-> moveCropRect(rArgs.rect, rArgs.delta, rArgs.bounds,
                                      rArgs.allowOutside)]
    /\ UNCHANGED <<rArgs, histVars, appVars>>

-----------------------------------------------------------------------------
(* SpecSnap: one call of snapRect on every input of the bounded sets *)

\* Rects at half-pixel positions, from one pixel before the origin on
SnapRects ==
    { Rect(Half(Px(x)), Half(Px(y)), Px(w), Px(h0)) :
        x \in -2..(2 * MaxPos + 2), y \in -2..(2 * MaxPos + 2),
        w \in 1..MaxSize, h0 \in 1..MaxSize }

\* 3 x 3 pixels at the origin, and 9 x 6 pixels one pixel to its right
SnapBounds == { Rect(0, 0, Px(3), Px(3)), Rect(Px(1), 0, Px(9), Px(6)) }

\* 0, a quarter pixel, one pixel, two pixels
Thresholds == { 0, Px(1) \div 4, Px(1), Px(2) }

SnapArgs ==
    [rect : SnapRects, bounds : SnapBounds, threshold : Thresholds,
     mode : {"move", "resize"}, handle : Handles \cup {NoHandle}]

CallSnap ==
    /\ rOut = Null
    /\ LET snapped == snapRect(rArgs.rect, rArgs.bounds, rArgs.threshold,
                               rArgs.mode, rArgs.handle)
       IN  rOut' = [op |-> "snapRect", rect |-> snapped.rect, guides |-> snapped.guides]
    /\ UNCHANGED <<rArgs, histVars, appVars>>

-----------------------------------------------------------------------------
(* SpecAdjust: one call of normalizeAdjustments or isDefaultAdjustments on *)
(* every argument of the bounded set                                       *)

\* what a field of the argument holds: undefined, or a number of EPSILON units
FieldValues == {undefined} \cup { v * EPSILON : v \in -2..2 }

\* null / undefined, and the objects with some of the three fields
AdjustArgs ==
    {Null} \cup UNION { [keys -> FieldValues] : keys \in SUBSET DOMAIN DEFAULT_ADJUSTMENTS }

CallNormalizeAdjustments ==
    /\ rOut = Null
    /\ rOut' = [op |-> "normalizeAdjustments", result |-> normalizeAdjustments(rArgs)]
    /\ UNCHANGED <<rArgs, histVars, appVars>>

CallIsDefaultAdjustments ==
    /\ rOut = Null
    /\ rOut' = [op |-> "isDefaultAdjustments", result |-> isDefaultAdjustments(rArgs)]
    /\ UNCHANGED <<rArgs, histVars, appVars>>

-----------------------------------------------------------------------------
(* SpecPoints: one call of rectFromPoints or rectFromPointsWithAspect on *)
(* every input of the bounded sets                                       *)

Points == { [x |-> Px(x), y |-> Px(y)] : x \in 0..(MaxPos + 1), y \in 0..(MaxPos + 1) }

\* null, 0, a negative ratio, 1:2, 3:2, 1:1 and 3:1
PointAspects == AspectRatios \cup { Ratio(1, 1), Ratio(3, 1) }

PointArgs == [a : Points, b : Points, aspect : PointAspects]

CallRectFromPoints ==
    /\ rOut = Null
    /\ rOut' = [op |-> "rectFromPoints", rect |-> rectFromPoints(rArgs.a, rArgs.b)]
    /\ UNCHANGED <<rArgs, histVars, appVars>>

CallRectFromPointsWithAspect ==
    /\ rOut = Null
    /\ rOut' = [op |-> "rectFromPointsWithAspect",
                rect |-> rectFromPointsWithAspect(rArgs.a, rArgs.b, rArgs.aspect)]
    /\ UNCHANGED <<rArgs, histVars, appVars>>

-----------------------------------------------------------------------------
(* SpecDrag: one pointer move of a move gesture in CanvasView:            *)
(* moveCropRect from the start rect, then snapRect in move mode           *)

\* start rects at whole pixels, 1..MaxSize pixels wide, and that or four and
\* a half pixels high
DragRects ==
    { Rect(Px(x), Px(y), Px(w), h0) :
        x \in 0..1, y \in 0..MaxPos, w \in 1..MaxSize,
        h0 \in { Px(n) : n \in 1..MaxSize } \cup { Half(Px(9)) } }

\* pointer deltas: whole pixels along x, quarter pixels along y
DragDeltas == { [x |-> Px(dx), y |-> Half(Half(Px(dy)))] :
                  dx \in -MaxDelta..MaxDelta,
                  dy \in -(4 * MaxDelta)..(4 * MaxDelta) }

\* 0, a quarter pixel, one pixel
DragThresholds == { 0, Px(1) \div 4, Px(1) }

DragArgs ==
    [startRect : DragRects, delta : DragDeltas, bounds : SnapBounds,
     threshold : DragThresholds, allowOutside : BOOLEAN]

\* onPointerMove, dragRef.current.type === 'moving'
onPointerMoveMoving ==
    /\ rOut = Null
    /\ LET next == moveCropRect(rArgs.startRect, rArgs.delta, rArgs.bounds,
                                rArgs.allowOutside)
           snapped == snapRect(next, rArgs.bounds, rArgs.threshold, "move", NoHandle)
       IN  rOut' = [op |-> "onPointerMove: moving", moved |-> next,
                    rect |-> snapped.rect, guides |-> snapped.guides]
    /\ UNCHANGED <<rArgs, histVars, appVars>>

-----------------------------------------------------------------------------
(* The values the history specifications commit *)

Values == 0..MaxValue

-----------------------------------------------------------------------------
(* SpecHeap: one call of pushHistory, undoHistory or redoHistory on a state *)
(* held in a heap                                                           *)

\* the sequences of at most n elements of S
SeqsUpTo(S, n) == UNION { [1..k -> S] : k \in 0..n }

\* a heap holding a past array, a future array and the state that refers to
\* them
HeapArgs ==
    { [heap |-> << [items |-> past], [items |-> future],
                   [past |-> 1, present |-> present, future |-> 2] >>,
       state |-> 3] :
        past \in SeqsUpTo(Values, 2), future \in SeqsUpTo(Values, 2), present \in Values }

CallPushOnHeap(v) ==
    /\ rOut = Null
    /\ LET call == pushHistoryOnHeap(rArgs.heap, rArgs.state, v)
       IN  rOut' = [op |-> "pushHistory", heap |-> call.heap, ref |-> call.ref]
    /\ UNCHANGED <<rArgs, histVars, appVars>>

CallUndoOnHeap ==
    /\ rOut = Null
    /\ LET call == undoHistoryOnHeap(rArgs.heap, rArgs.state)
       IN  rOut' = [op |-> "undoHistory", heap |-> call.heap, ref |-> call.ref]
    /\ UNCHANGED <<rArgs, histVars, appVars>>

CallRedoOnHeap ==
    /\ rOut = Null
    /\ LET call == redoHistoryOnHeap(rArgs.heap, rArgs.state)
       IN  rOut' = [op |-> "redoHistory", heap |-> call.heap, ref |-> call.ref]
    /\ UNCHANGED <<rArgs, histVars, appVars>>

-----------------------------------------------------------------------------
(* SpecHistory: createHistory(v0), pushHistory calls, then undoHistory and    *)
(* redoHistory calls                                                        *)

\* pushHistory(state, v), while no undo or redo has been made
CallPush(v) ==
    /\ nUndo = 0 /\ nRedo = 0
    /\ Len(timeline) <= MaxPushes
    /\ hstate' = pushHistory(hstate, v)
    /\ timeline' = Append(timeline, v)
    /\ lastCall' = [op |-> "pushHistory", arg |-> hstate]
    /\ UNCHANGED <<nUndo, nRedo, resizeVars, appVars>>

\* undoHistory(state), while no redo has been made
CallUndo ==
    /\ nRedo = 0
    /\ nUndo <= MaxPushes
    /\ hstate' = undoHistory(hstate)
    /\ nUndo' = nUndo + 1
    /\ lastCall' = [op |-> "undoHistory", arg |-> hstate]
    /\ UNCHANGED <<timeline, nRedo, resizeVars, appVars>>

CallRedo ==
    /\ nRedo <= MaxPushes
    /\ hstate' = redoHistory(hstate)
    /\ nRedo' = nRedo + 1
    /\ lastCall' = [op |-> "redoHistory", arg |-> hstate]
    /\ UNCHANGED <<timeline, nUndo, resizeVars, appVars>>

-----------------------------------------------------------------------------
(* Spec: the editor (App.tsx).  One action is one run of a handler, with the  *)
(* render and the effects that follow it; an asynchronous call is one action *)
(* per stretch between two awaits.                                           *)

Images == { [width |-> Px(82), height |-> Px(41)] }

\* Rects handed to setCropRect by the canvas and the inspector: one inside
\* the 82 x 41 image, one reaching beyond its right and bottom edges.
DraftRects == { Rect(Px(10), Px(10), Px(40), Px(20)),
                Rect(Px(60), Px(30), Px(40), Px(20)) }

\* steps of the straighten angle (see rotatedBounds)
Straightens == { 0, 1 }

\* onAdjustmentsChange({ brightness: 0 }) and ({ brightness: 0.5 })
AdjustmentUpdates ==
    { [key |-> "brightness", value |-> 0],
      [key |-> "brightness", value |-> 5000 * EPSILON] }

\* The handler that ran last, and whether a redo was available when it ran;
\* rotateBy also records the draft crop rect it was called with.
Op(name) == [op |-> name, hadRedo |-> Len(history.future) > 0]

\* one more step of the session, within MaxSteps
Step == steps < MaxSteps /\ steps' = steps + 1

\* The slider gesture as the user performs it (Inspector.tsx: pointer down or
\* key down, change events, then pointer up, key up or blur).  base, past0
\* and future0 are the present, the past and the future when it began, last
\* is base with the values of the change events applied.  A gesture ends
\* committed when it changed the value and discarded when it did not.  A
\* gesture is followed only if no other gesture is pending when it begins,
\* and until another handler edits the history; an undo or a redo taken while
\* it is live interrupts it, and its end-of-gesture event then ends it.
NoGesture ==
    [phase |-> "idle", kind |-> "none", base |-> Null, past0 |-> <<>>,
     future0 |-> <<>>, last |-> Null, updates |-> 0, commits |-> 0]

gestureBegin(kind) ==
    IF gesture.phase \in {"live", "interrupted"}
    THEN (IF gesture.kind = kind THEN gesture ELSE NoGesture)
    ELSE IF adjustBaseRef = Null /\ straightenBaseRef = Null
    THEN [phase |-> "live", kind |-> kind, base |-> history.present,
          past0 |-> history.past, future0 |-> history.future,
          last |-> history.present,
          updates |-> 0, commits |-> 0]
    ELSE NoGesture

gestureChange(kind, key, value) ==
    LET g == gestureBegin(kind)
    IN  IF g.phase = "interrupted" THEN g
        ELSE IF g.phase # "live" THEN NoGesture
        ELSE [g EXCEPT
                !.last = IF kind = "straighten"
                         THEN [@ EXCEPT !.straighten = value]
                         ELSE [@ EXCEPT !.adjustments[key] = value],
                !.updates = Min(@ + 1, 2)]

gestureChanged(g) ==
    IF g.kind = "straighten"
    THEN g.last.straighten # g.base.straighten
    ELSE g.last.adjustments # g.base.adjustments

gestureEnd(kind) ==
    IF gesture.kind # kind THEN NoGesture
    ELSE IF gesture.phase = "live"
    THEN (IF gesture.updates > 0 /\ gestureChanged(gesture)
          THEN [gesture EXCEPT !.phase = "committed", !.commits = 1]
          ELSE [gesture EXCEPT !.phase = "discarded", !.commits = 1])
    ELSE IF gesture.phase \in {"committed", "discarded"}
    THEN [gesture EXCEPT !.commits = 2]
    ELSE IF gesture.phase = "interrupted"
    THEN [gesture EXCEPT !.phase = "ended", !.commits = 1]
    ELSE NoGesture

\* handleUndo or handleRedo while a gesture is being followed
gestureInterrupt ==
    IF gesture.phase \in {"live", "interrupted"}
    THEN [gesture EXCEPT !.phase = "interrupted"]
    ELSE NoGesture

\* A mutant of resetImageState: the gesture bases survive the load.
resetImageStateKeepsBases(nextImage) ==
    /\ image' = nextImage
    /\ history' = createHistory(initialTransform)
    /\ cropRect' = Null
    /\ allowOutside' = FALSE
    /\ lastOp' = Op("resetImageState")
    /\ Step
    /\ gesture' = NoGesture
    /\ UNCHANGED <<adjustBaseRef, straightenBaseRef, exportCall, histVars, resizeVars>>

\* a successful load: handleFileChange, handleDrop, handleOpen and the Tauri
\* drop listener call resetImageState(loaded)
resetImageState(nextImage) ==
    /\ image' = nextImage
    /\ history' = createHistory(initialTransform)
    /\ cropRect' = Null
    /\ allowOutside' = FALSE
    /\ adjustBaseRef' = Null
    /\ straightenBaseRef' = Null
    /\ lastOp' = Op("resetImageState")
    /\ Step
    /\ gesture' = NoGesture
    /\ UNCHANGED <<exportCall, histVars, resizeVars>>

\* a failed load: the catch branch of handleFileChange, handleDrop and the
\* Tauri drop listener sets loadError and isLoading, which no handler here reads
loadImageFails ==
    /\ lastOp' = Op("loadImageFromFile")
    /\ Step
    /\ UNCHANGED <<image, history, cropRect, allowOutside, adjustBaseRef,
                   straightenBaseRef, exportCall, gesture, histVars, resizeVars>>

setCropRect(rect) ==
    /\ image # Null
    /\ cropRect' = clampDraftEffect(
                      IF ~allowOutside /\ image # Null
                      THEN clampRectEdges(rect, cropBoundsOf(image, history))
                      ELSE rect,
                      image, history, allowOutside)
    /\ lastOp' = Op("setCropRect")
    /\ Step
    /\ UNCHANGED <<image, history, allowOutside, adjustBaseRef, straightenBaseRef,
                   exportCall, gesture, histVars, resizeVars>>

setAllowOutside(value) ==
    /\ value # allowOutside
    /\ allowOutside' = value
    /\ cropRect' = clampDraftEffect(cropRect, image, history, value)
    /\ lastOp' = Op("setAllowOutside")
    /\ Step
    /\ UNCHANGED <<image, history, adjustBaseRef, straightenBaseRef,
                   exportCall, gesture, histVars, resizeVars>>

\* Escape in handleKeyDown
handleKeyDownEscape ==
    /\ cropRect # Null
    /\ cropRect' = Null
    /\ lastOp' = Op("handleKeyDown")
    /\ Step
    /\ UNCHANGED <<image, history, allowOutside, adjustBaseRef, straightenBaseRef,
                   exportCall, gesture, histVars, resizeVars>>

\* applyCrop leaving the draft in place
applyCropKeepsDraft ==
    /\ cropRect # Null
    /\ history' = pushHistory(history, [history.present EXCEPT !.cropRect = cropRect])
    /\ lastOp' = Op("applyCrop")
    /\ Step
    /\ gesture' = NoGesture
    /\ UNCHANGED <<image, cropRect, allowOutside, adjustBaseRef, straightenBaseRef,
                   exportCall, histVars, resizeVars>>

\* applyCrop with no draft: if (!cropRect) return
applyCropNoDraft ==
    /\ cropRect = Null
    /\ lastOp' = Op("applyCrop: no draft")
    /\ Step
    /\ UNCHANGED <<image, history, cropRect, allowOutside, adjustBaseRef,
                   straightenBaseRef, exportCall, gesture, histVars, resizeVars>>

applyCrop ==
    /\ cropRect # Null
    /\ history' = pushHistory(history, [history.present EXCEPT !.cropRect = cropRect])
    /\ cropRect' = Null
    /\ lastOp' = Op("applyCrop")
    /\ Step
    /\ gesture' = NoGesture
    /\ UNCHANGED <<image, allowOutside, adjustBaseRef, straightenBaseRef,
                   exportCall, histVars, resizeVars>>

resetCrop ==
    /\ image # Null
    /\ IF transformOf(history).cropRect # Null
       THEN history' = pushHistory(history, [history.present EXCEPT !.cropRect = Null])
       ELSE history' = history
    /\ cropRect' = Null
    /\ lastOp' = Op("resetCrop")
    /\ Step
    /\ gesture' = NoGesture
    /\ UNCHANGED <<image, allowOutside, adjustBaseRef, straightenBaseRef,
                   exportCall, histVars, resizeVars>>

rotateBy(delta) ==
    /\ image # Null
    /\ LET transform == transformOf(history)
           displayBounds == displayBoundsOf(image, history)
           rotateDelta == IF delta = 90 THEN 90 ELSE 270
           nextRotation == normalizeRotation(transform.rotation + delta)
           nextCrop == IF transform.cropRect # Null
                       THEN rotateRect(transform.cropRect, rotateDelta,
                                       displayBounds.w, displayBounds.h)
                       ELSE Null
           nextDraft == IF cropRect # Null
                        THEN rotateRect(cropRect, rotateDelta,
                                        displayBounds.w, displayBounds.h)
                        ELSE Null
       IN  /\ history' = pushHistory(history,
                            [history.present EXCEPT !.rotation = nextRotation,
                                                    !.cropRect = nextCrop])
           /\ cropRect' = clampDraftEffect(nextDraft, image, history', allowOutside)
    /\ lastOp' = [op |-> "rotateBy", hadRedo |-> Len(history.future) > 0,
                  draft |-> cropRect]
    /\ Step
    /\ gesture' = NoGesture
    /\ UNCHANGED <<image, allowOutside, adjustBaseRef, straightenBaseRef,
                   exportCall, histVars, resizeVars>>

beginAdjustments ==
    /\ image # Null
    /\ adjustBaseRef' = IF adjustBaseRef = Null THEN history.present ELSE adjustBaseRef
    /\ lastOp' = Op("beginAdjustments")
    /\ Step
    /\ gesture' = gestureBegin("adjust")
    /\ UNCHANGED <<image, history, cropRect, allowOutside, straightenBaseRef,
                   exportCall, histVars, resizeVars>>

updateAdjustments(updates) ==
    /\ image # Null
    /\ adjustBaseRef' = IF adjustBaseRef = Null THEN history.present ELSE adjustBaseRef
    /\ history' = updateAdjustmentsUpdater(history, updates)
    /\ cropRect' = clampDraftEffect(cropRect, image, history', allowOutside)
    /\ lastOp' = Op("updateAdjustments")
    /\ Step
    /\ gesture' = gestureChange("adjust", updates.key, updates.value)
    /\ UNCHANGED <<image, allowOutside, straightenBaseRef,
                   exportCall, histVars, resizeVars>>

commitAdjustments ==
    /\ image # Null
    /\ history' = commitAdjustmentsUpdater(history, adjustBaseRef)
    /\ adjustBaseRef' = Null
    /\ cropRect' = clampDraftEffect(cropRect, image, history', allowOutside)
    /\ lastOp' = Op("commitAdjustments")
    /\ Step
    /\ gesture' = gestureEnd("adjust")
    /\ UNCHANGED <<image, allowOutside, straightenBaseRef,
                   exportCall, histVars, resizeVars>>

resetAdjustments ==
    /\ image # Null
    /\ history' = pushHistory(history,
                     [history.present EXCEPT !.adjustments = DEFAULT_ADJUSTMENTS])
    /\ cropRect' = clampDraftEffect(cropRect, image, history', allowOutside)
    /\ lastOp' = Op("resetAdjustments")
    /\ Step
    /\ gesture' = NoGesture
    /\ UNCHANGED <<image, allowOutside, adjustBaseRef, straightenBaseRef,
                   exportCall, histVars, resizeVars>>

beginStraighten ==
    /\ image # Null
    /\ straightenBaseRef' =
          IF straightenBaseRef = Null THEN history.present ELSE straightenBaseRef
    /\ lastOp' = Op("beginStraighten")
    /\ Step
    /\ gesture' = gestureBegin("straighten")
    /\ UNCHANGED <<image, history, cropRect, allowOutside, adjustBaseRef,
                   exportCall, histVars, resizeVars>>

handleStraightenChange(value) ==
    /\ image # Null
    /\ straightenBaseRef' =
          IF straightenBaseRef = Null THEN history.present ELSE straightenBaseRef
    /\ history' = updateTransformUpdater(history, value)
    /\ cropRect' = clampDraftEffect(cropRect, image, history', allowOutside)
    /\ lastOp' = Op("handleStraightenChange")
    /\ Step
    /\ gesture' = gestureChange("straighten", "straighten", value)
    /\ UNCHANGED <<image, allowOutside, adjustBaseRef,
                   exportCall, histVars, resizeVars>>

commitStraighten ==
    /\ image # Null
    /\ history' = commitStraightenUpdater(history, straightenBaseRef)
    /\ straightenBaseRef' = Null
    /\ cropRect' = clampDraftEffect(cropRect, image, history', allowOutside)
    /\ lastOp' = Op("commitStraighten")
    /\ Step
    /\ gesture' = gestureEnd("straighten")
    /\ UNCHANGED <<image, allowOutside, adjustBaseRef,
                   exportCall, histVars, resizeVars>>

handleFlipH ==
    /\ image # Null
    /\ history' = pushHistory(history,
                     [history.present EXCEPT !.flipH = ~history.present.flipH])
    /\ cropRect' = clampDraftEffect(cropRect, image, history', allowOutside)
    /\ lastOp' = Op("handleFlipH")
    /\ Step
    /\ gesture' = NoGesture
    /\ UNCHANGED <<image, allowOutside, adjustBaseRef, straightenBaseRef,
                   exportCall, histVars, resizeVars>>

handleFlipV ==
    /\ image # Null
    /\ history' = pushHistory(history,
                     [history.present EXCEPT !.flipV = ~history.present.flipV])
    /\ cropRect' = clampDraftEffect(cropRect, image, history', allowOutside)
    /\ lastOp' = Op("handleFlipV")
    /\ Step
    /\ gesture' = NoGesture
    /\ UNCHANGED <<image, allowOutside, adjustBaseRef, straightenBaseRef,
                   exportCall, histVars, resizeVars>>

handleUndo ==
    /\ history' = undoHistory(history)
    /\ cropRect' = Null
    /\ adjustBaseRef' = Null
    /\ straightenBaseRef' = Null
    /\ lastOp' = Op("handleUndo")
    /\ Step
    /\ gesture' = gestureInterrupt
    /\ UNCHANGED <<image, allowOutside, exportCall, histVars, resizeVars>>

handleRedo ==
    /\ history' = redoHistory(history)
    /\ cropRect' = Null
    /\ adjustBaseRef' = Null
    /\ straightenBaseRef' = Null
    /\ lastOp' = Op("handleRedo")
    /\ Step
    /\ gesture' = gestureInterrupt
    /\ UNCHANGED <<image, allowOutside, exportCall, histVars, resizeVars>>

\* handleExport up to its first await.  With default adjustments
\* exportTransformedImage runs on to the call of toBlob; otherwise it awaits
\* applyAdjustmentsToBitmap, which needs a 2D context of its own (adjustCtx).
handleExport ==
    /\ image # Null
    /\ exportCall.pc \in {"idle", "resolved", "rejected"}
    /\ \E adjustCtx \in BOOLEAN, fullCtx \in BOOLEAN, cropCtx \in BOOLEAN :
         LET transform == transformOf(history)
             exportTransform ==
                [transform EXCEPT !.cropRect = IF cropRect # Null THEN cropRect ELSE @]
             call == [NoExport EXCEPT !.hasCrop = exportTransform.cropRect # Null]
         IN  exportCall' =
                IF isDefaultAdjustments(normalizeAdjustments(exportTransform.adjustments))
                THEN drawCanvases(call, fullCtx, cropCtx)
                ELSE IF ~adjustCtx
                     THEN reject(call, "context", "Unable to create canvas context")
                     ELSE [call EXCEPT !.pc = "applyAdjustmentsToBitmap"]
    /\ lastOp' = Op("handleExport")
    /\ Step
    /\ UNCHANGED <<image, history, cropRect, allowOutside, adjustBaseRef,
                   straightenBaseRef, gesture, histVars, resizeVars>>

\* createImageBitmap settles: the adjusted bitmap exists (or the call rejects),
\* and exportTransformedImage runs on to the call of toBlob.
applyAdjustmentsToBitmapSettles ==
    /\ exportCall.pc = "applyAdjustmentsToBitmap"
    /\ \E bitmap \in BOOLEAN, fullCtx \in BOOLEAN, cropCtx \in BOOLEAN :
         exportCall' =
            IF ~bitmap
            THEN reject(exportCall, "bitmap", "createImageBitmap failed")
            ELSE drawCanvases([exportCall EXCEPT !.adjustedBitmap = "open"],
                              fullCtx, cropCtx)
    /\ lastOp' = Op("applyAdjustmentsToBitmap")
    /\ Step
    /\ UNCHANGED <<image, history, cropRect, allowOutside, adjustBaseRef,
                   straightenBaseRef, gesture, histVars, resizeVars>>

\* the encoder calls back with a blob or with null
toBlobSettles ==
    /\ exportCall.pc = "toBlob"
    /\ \E result \in {Blob, Null} : exportCall' = toBlobCallback(exportCall, result)
    /\ lastOp' = Op("toBlob")
    /\ Step
    /\ UNCHANGED <<image, history, cropRect, allowOutside, adjustBaseRef,
                   straightenBaseRef, gesture, histVars, resizeVars>>

\* saveExportDialog / downloadBlob settles
saveSettles ==
    /\ exportCall.pc = "save"
    /\ \E saved \in BOOLEAN :
         exportCall' = IF saved THEN [exportCall EXCEPT !.pc = "resolved"]
                       ELSE reject(exportCall, "save", "writeFile failed")
    /\ lastOp' = Op("saveExportDialog")
    /\ Step
    /\ UNCHANGED <<image, history, cropRect, allowOutside, adjustBaseRef,
                   straightenBaseRef, gesture, histVars, resizeVars>>

-----------------------------------------------------------------------------
(* Specifications *)

\* The variables of a specification that does not use them stay at these
\* values.
HistoryIdle ==
    /\ hstate = createHistory(0) /\ timeline = <<0>>
    /\ nUndo = 0 /\ nRedo = 0
    /\ lastCall = [op |-> "createHistory", arg |-> Null]

ResizeIdle == rArgs = Null /\ rOut = Null

\* App before the first image is loaded
AppIdle ==
    /\ image = Null
    /\ history = createHistory(initialTransform)
    /\ cropRect = Null
    /\ allowOutside = FALSE
    /\ adjustBaseRef = Null
    /\ straightenBaseRef = Null
    /\ exportCall = NoExport
    /\ lastOp = [op |-> "App", hadRedo |-> FALSE]
    /\ gesture = NoGesture
    /\ steps = 0

ResizeInit ==
    /\ rArgs \in ResizeArgs /\ rOut = Null
    /\ HistoryIdle
    /\ AppIdle

ResizeNext == CallResize

SpecResize == ResizeInit /\ [][ResizeNext]_vars

MoveInit ==
    /\ rArgs \in MoveArgs /\ rOut = Null
    /\ HistoryIdle
    /\ AppIdle

MoveNext == CallMove

SpecMove == MoveInit /\ [][MoveNext]_vars

SnapInit ==
    /\ rArgs \in SnapArgs /\ rOut = Null
    /\ HistoryIdle
    /\ AppIdle

SnapNext == CallSnap

SpecSnap == SnapInit /\ [][SnapNext]_vars

HeapInit ==
    /\ rArgs \in HeapArgs /\ rOut = Null
    /\ HistoryIdle
    /\ AppIdle

HeapNext ==
    \/ \E v \in Values : CallPushOnHeap(v)
    \/ CallUndoOnHeap
    \/ CallRedoOnHeap

SpecHeap == HeapInit /\ [][HeapNext]_vars

AdjustInit ==
    /\ rArgs \in AdjustArgs /\ rOut = Null
    /\ HistoryIdle
    /\ AppIdle

AdjustNext ==
    \/ CallNormalizeAdjustments
    \/ CallIsDefaultAdjustments

SpecAdjust == AdjustInit /\ [][AdjustNext]_vars

PointsInit ==
    /\ rArgs \in PointArgs /\ rOut = Null
    /\ HistoryIdle
    /\ AppIdle

PointsNext ==
    \/ CallRectFromPoints
    \/ CallRectFromPointsWithAspect

SpecPoints == PointsInit /\ [][PointsNext]_vars

DragInit ==
    /\ rArgs \in DragArgs /\ rOut = Null
    /\ HistoryIdle
    /\ AppIdle

DragNext == onPointerMoveMoving

SpecDrag == DragInit /\ [][DragNext]_vars

RotateInit ==
    /\ rArgs \in RotateArgs /\ rOut = Null
    /\ HistoryIdle
    /\ AppIdle

RotateNext ==
    \/ CallRotate
    \/ CallRotateAndBack
    \/ CallRotateFourTimes

SpecRotate == RotateInit /\ [][RotateNext]_vars

\* createHistory(v)
HistoryInit ==
    /\ \E v \in Values : hstate = createHistory(v) /\ timeline = <<v>>
    /\ nUndo = 0
    /\ nRedo = 0
    /\ lastCall = [op |-> "createHistory", arg |-> Null]
    /\ ResizeIdle
    /\ AppIdle

HistoryNext ==
    \/ \E v \in Values : CallPush(v)
    \/ CallUndo
    \/ CallRedo

SpecHistory == HistoryInit /\ [][HistoryNext]_vars

Init ==
    /\ AppIdle
    /\ HistoryIdle
    /\ ResizeIdle

Next ==
    \/ \E nextImage \in Images : resetImageState(nextImage)
    \/ loadImageFails
    \/ \E rect \in DraftRects : setCropRect(rect)
    \/ \E value \in BOOLEAN : setAllowOutside(value)
    \/ handleKeyDownEscape
    \/ applyCrop
    \/ applyCropNoDraft
    \/ resetCrop
    \/ \E delta \in {90, -90} : rotateBy(delta)
    \/ beginAdjustments
    \/ \E updates \in AdjustmentUpdates : updateAdjustments(updates)
    \/ commitAdjustments
    \/ resetAdjustments
    \/ beginStraighten
    \/ \E value \in Straightens : handleStraightenChange(value)
    \/ commitStraighten
    \/ handleFlipH
    \/ handleFlipV
    \/ handleUndo
    \/ handleRedo
    \/ handleExport
    \/ applyAdjustmentsToBitmapSettles
    \/ toBlobSettles
    \/ saveSettles

Spec == Init /\ [][Next]_vars

-----
(* Claims about the history engine (SpecHistory) *)

Pushes == Len(timeline) - 1

\* C1: after pushes v1..vk, N undoHistory calls (N <= k) and M redoHistory
\* calls (M <= N), present is v(k-N+M): undo walks back through the committed
\* values and redo walks forward through the same values.
C1_UndoRedoWalk ==
    (nUndo <= Pushes /\ nRedo <= nUndo)
        => hstate.present = timeline[(Pushes - nUndo + nRedo) + 1]

C1_Witness ==
    /\ Pushes >= 3 /\ nUndo >= 2 /\ nUndo <= Pushes /\ nRedo >= 1 /\ nRedo < nUndo
    /\ hstate.present # timeline[Len(timeline)]
    /\ hstate.present # timeline[1]

\* C3: undoHistory on an empty past and redoHistory on an empty future return
\* a state identical to their input.
C3_EmptyIsNoOp ==
    /\ (lastCall.op = "undoHistory" /\ Len(lastCall.arg.past) = 0)
            => hstate = lastCall.arg
    /\ (lastCall.op = "redoHistory" /\ Len(lastCall.arg.future) = 0)
            => hstate = lastCall.arg

\* A redoHistory call on an empty future and a non-empty past, in a run in
\* which an undoHistory call was made on an empty past.
C3_Witness ==
    /\ lastCall.op = "redoHistory"
    /\ Len(lastCall.arg.future) = 0
    /\ Len(lastCall.arg.past) >= 1
    /\ nUndo > Pushes

-----------------------------------------------------------------------------
(* Claims about resizeCropRect (SpecResize) *)

Contained(rect, bounds) ==
    /\ rect.x >= bounds.x
    /\ rect.x + rect.w <= bounds.x + bounds.w
    /\ rect.y >= bounds.y
    /\ rect.y + rect.h <= bounds.y + bounds.h

\* C4: the rect returned by resizeCropRect has w >= 1 and h >= 1, for every
\* rect, handle, delta, modifiers, bounds and allowOutside.
C4_MinSize == rOut # Null => (rOut.w >= Px(1) /\ rOut.h >= Px(1))

\* The east edge was dragged to or past the west edge, unclamped.
C4_Witness ==
    /\ rOut # Null
    /\ rArgs.handle = <<"e">> /\ ~rArgs.modifiers.symmetric
    /\ rArgs.allowOutside
    /\ rArgs.rect.w + rArgs.delta.x < Px(1)
    /\ rOut.w = Px(1)

\* C5: with allowOutside false and bounds given, the rect returned by
\* resizeCropRect is fully contained in bounds.
C5_InsideBounds ==
    (rOut # Null /\ ~rArgs.allowOutside /\ rArgs.bounds # Null)
        => Contained(rOut, rArgs.bounds)

\* C6: with modifiers.square, the rect returned by resizeCropRect has
\* round(w) = round(h).
C6_SquareStaysSquare ==
    (rOut # Null /\ rArgs.modifiers.square) => Round(rOut.w) = Round(rOut.h)

\* C7: with modifiers.symmetric, the centre of the rect returned by
\* resizeCropRect is the centre of the input rect, within rounding (each
\* coordinate of the centre moves by less than half a pixel).
C7_SymmetricKeepsCentre ==
    (rOut # Null /\ rArgs.modifiers.symmetric)
        => /\ Abs((2 * rOut.x + rOut.w) - (2 * rArgs.rect.x + rArgs.rect.w)) < Px(1)
           /\ Abs((2 * rOut.y + rOut.h) - (2 * rArgs.rect.y + rArgs.rect.h)) < Px(1)

-----------------------------------------------------------------------------
(* Claims about the editor (Spec) *)

\* the handlers the editor commits an edit with
CommittedEdits ==
    {"applyCrop", "rotateBy", "handleFlipH", "handleFlipV", "resetAdjustments"}

\* C2: a committed edit (crop apply, crop reset of an applied crop, rotate,
\* flip, reset adjustments) goes through pushHistory: past is the old past with
\* the old present appended at its end, present is the edited state and future
\* is empty, so no redo is available after it, whatever the future held.
C2_CommitClearsRedo ==
    [][ (\/ lastOp'.op \in CommittedEdits
         \/ lastOp'.op = "resetCrop" /\ transformOf(history).cropRect # Null)
        => /\ history'.past = Append(history.past, history.present)
           /\ history'.future = <<>>
           /\ lastOp'.op = "applyCrop" => history'.present.cropRect = cropRect
           /\ lastOp'.op = "resetCrop" => history'.present.cropRect = Null
           /\ lastOp'.op = "handleFlipH"
                => history'.present.flipH = ~history.present.flipH
           /\ lastOp'.op = "resetAdjustments"
                => history'.present.adjustments = DEFAULT_ADJUSTMENTS ]_vars

\* A rotate committed while a redo was available.
C2_Witness ==
    /\ lastOp.op = "rotateBy"
    /\ lastOp.hadRedo
    /\ Len(history.past) >= 1
    /\ history.present.rotation # 0

\* C8: once exportTransformedImage has returned or rejected, an adjusted bitmap
\* that was created has been closed.
C8_AdjustedBitmapClosed ==
    exportCall.pc \in {"save", "resolved", "rejected"}
        => exportCall.adjustedBitmap # "open"

\* C9: an export that fails (no 2D context, no blob from the encoder) rejects
\* with an error, and no step of an export changes history or the draft crop
\* rect.
C9_FailedExportRejects ==
    /\ [](exportCall.failure # "none"
            => exportCall.pc = "rejected" /\ exportCall.error # "none")
    /\ [][exportCall' # exportCall
            => history' = history /\ cropRect' = cropRect]_vars

\* An export with a draft crop rect whose encoder produced no blob.
C9_Witness ==
    /\ exportCall.pc = "rejected"
    /\ exportCall.failure = "encode"
    /\ exportCall.hasCrop
    /\ cropRect # Null

\* C10: during a slider gesture the live updates leave past as it was and
\* present is the last live value; once the gesture that changed the value is
\* committed, past is the past of before the gesture with the pre-gesture
\* present appended, present is still the last live value, and further
\* end-of-gesture events change nothing.
C10_GestureSquashed ==
    /\ gesture.phase = "live"
        => history.past = gesture.past0 /\ history.present = gesture.last
    /\ gesture.phase = "committed"
        => /\ history.past = Append(gesture.past0, gesture.base)
           /\ history.present = gesture.last

\* An adjustments gesture that changed the value, after its second
\* end-of-gesture event.
C10_Witness ==
    /\ gesture.phase = "committed"
    /\ gesture.kind = "adjust"
    /\ gesture.updates >= 1
    /\ gesture.commits = 2
    /\ gesture.base # gesture.last

\* C11: a slider gesture that ends with the value it began with is
\* discarded: after its end-of-gesture event past, present and future are what
\* they were when the gesture began.
C11_UnchangedGestureDiscarded ==
    gesture.phase = "discarded"
        => /\ history.past = gesture.past0
           /\ history.present = gesture.base
           /\ history.future = gesture.future0

\* C12: after a successful image load the history is createHistory of the
\* all-identity TransformState, the draft crop rect is null and no gesture
\* base is pending, whatever preceded the load; a failed load leaves image
\* and history unchanged.
C12_LoadResets ==
    /\ [](lastOp.op = "resetImageState"
            => /\ image # Null
               /\ history = [past |-> <<>>,
                             present |-> [cropRect |-> Null, rotation |-> 0,
                                          straighten |-> 0, flipH |-> FALSE,
                                          flipV |-> FALSE,
                                          adjustments |-> [brightness |-> 0,
                                                           contrast |-> 0,
                                                           curve |-> 0]],
                             future |-> <<>>]
               /\ cropRect = Null
               /\ adjustBaseRef = Null
               /\ straightenBaseRef = Null)
    /\ [][lastOp'.op = "loadImageFromFile"
            => image' = image /\ history' = history]_vars

\* A load that completed while a redo was available.
C12_Witness ==
    /\ lastOp.op = "resetImageState"
    /\ lastOp.hadRedo
    /\ steps >= 4

-----------------------------------------------------------------------------
(* Claims about rotateRect (SpecRotate) *)

\* C13: four successive rotateRect calls with rotation 90, each given the
\* canvas width and height the previous turn produced, return the original
\* rect.
C13_FourQuarterTurns ==
    (rOut # Null /\ rOut.op = "rotateRect x 4") => rOut.rect = rArgs.rect

\* Four turns of a rect that is not square, on a canvas that is not square,
\* none of whose intermediate results is the rect itself.
C13_Witness ==
    /\ rOut # Null /\ rOut.op = "rotateRect x 4"
    /\ rArgs.width # rArgs.height
    /\ rArgs.rect.w # rArgs.rect.h
    /\ \A i \in 1..3 : rOut.turns[i] # rArgs.rect

\* the canvas after a rotation: height x width for 90 and 270
RotatedCanvas(rotation, width, height) ==
    IF rotation = 90 \/ rotation = 270
    THEN Rect(0, 0, height, width)
    ELSE Rect(0, 0, width, height)

\* C14: for rotation 0, 90, 180 or 270 and a rect inside the width x height
\* canvas, the rect returned by rotateRect lies inside the rotated canvas, with
\* w and h swapped for 90 and 270 and unchanged for 0 and 180.
C14_RotateKeepsRectValid ==
    (/\ rOut # Null /\ rOut.op = "rotateRect"
     /\ rArgs.rotation \in {0, 90, 180, 270}
     /\ Contained(rArgs.rect, Rect(0, 0, rArgs.width, rArgs.height)))
        => /\ Contained(rOut.rect,
                        RotatedCanvas(rArgs.rotation, rArgs.width, rArgs.height))
           /\ IF rArgs.rotation \in {90, 270}
              THEN rOut.rect.w = rArgs.rect.h /\ rOut.rect.h = rArgs.rect.w
              ELSE rOut.rect.w = rArgs.rect.w /\ rOut.rect.h = rArgs.rect.h

\* A 270-degree turn of a non-square rect that touches the right edge of a
\* non-square canvas.
C14_Witness ==
    /\ rOut # Null /\ rOut.op = "rotateRect"
    /\ rArgs.rotation = 270
    /\ Contained(rArgs.rect, Rect(0, 0, rArgs.width, rArgs.height))
    /\ rArgs.rect.x + rArgs.rect.w = rArgs.width
    /\ rArgs.rect.w # rArgs.rect.h
    /\ rArgs.width # rArgs.height
    /\ rOut.rect.y = 0

-----------------------------------------------------------------------------
(* Claims about moveCropRect (SpecMove) *)

\* the rect translated by delta
Translated(rect, delta) == Rect(rect.x + delta.x, rect.y + delta.y, rect.w, rect.h)

\* C16: with allowOutside true or bounds null, moveCropRect returns the rect
\* translated by delta, w and h unchanged; otherwise it returns clampRectInside
\* of the translated rect, which lies within bounds and has the input size
\* capped, in each dimension, to the size of bounds.
C16_MoveTranslatesOrClamps ==
    (rOut # Null /\ rOut.op = "moveCropRect")
        => IF rArgs.allowOutside \/ rArgs.bounds = Null
           THEN rOut.rect = Translated(rArgs.rect, rArgs.delta)
           ELSE /\ rOut.rect = clampRectInside(Translated(rArgs.rect, rArgs.delta),
                                               rArgs.bounds)
                /\ Contained(rOut.rect, rArgs.bounds)
                /\ rOut.rect.w = Min(rArgs.rect.w, rArgs.bounds.w)
                /\ rOut.rect.h = Min(rArgs.rect.h, rArgs.bounds.h)

\* A clamped move of a rect wider than bounds, and no taller.
C16_Witness ==
    /\ rOut # Null /\ rOut.op = "moveCropRect"
    /\ ~rArgs.allowOutside /\ rArgs.bounds # Null
    /\ rArgs.rect.w > rArgs.bounds.w
    /\ rArgs.rect.h <= rArgs.bounds.h
    /\ rOut.rect.w = rArgs.bounds.w
    /\ rOut.rect.h = rArgs.rect.h
    /\ rArgs.delta.x # 0

-----------------------------------------------------------------------------
(* Claims about snapRect (SpecSnap) *)

Axes == {"x", "y"}

\* the line of a rect that a candidate key names
LineOf(rect, key) ==
    CASE key = "left"    -> rect.x
      [] key = "right"   -> rect.x + rect.w
      [] key = "centerX" -> rect.x + Half(rect.w)
      [] key = "top"     -> rect.y
      [] key = "bottom"  -> rect.y + rect.h
      [] key = "centerY" -> rect.y + Half(rect.h)

\* the candidates of an axis: the two edges and the centre in move mode, the
\* edges the handle names in resize mode
CandidateKeys(mode, handle, axis) ==
    IF mode = "move"
    THEN (IF axis = "x" THEN {"left", "centerX", "right"}
                        ELSE {"top", "centerY", "bottom"})
    ELSE IF handle = NoHandle THEN {}
    ELSE IF axis = "x"
    THEN { k \in {"left", "right"} : handleHas(handle, IF k = "left" THEN "w" ELSE "e") }
    ELSE { k \in {"top", "bottom"} : handleHas(handle, IF k = "top" THEN "n" ELSE "s") }

\* the targets of an axis: the two edges of bounds, its two thirds, its centre
TargetsOf(bounds, axis) ==
    LET offset == IF axis = "x" THEN bounds.x ELSE bounds.y
        size == IF axis = "x" THEN bounds.w ELSE bounds.h
    IN  { [value |-> offset, kind |-> "edge"],
          [value |-> offset + size, kind |-> "edge"],
          [value |-> offset + size \div 3, kind |-> "third"],
          [value |-> offset + 2 * (size \div 3), kind |-> "third"],
          [value |-> offset + size \div 2, kind |-> "center"] }

\* |target - candidate| of a pair, on the rect given to the call
Distance(pair) == Abs(pair.target.value - LineOf(rArgs.rect, pair.key))

\* the candidate/target pairs of an axis that lie within the threshold
PairsWithin(axis) ==
    { pair \in [key : CandidateKeys(rArgs.mode, rArgs.handle, axis),
                target : TargetsOf(rArgs.bounds, axis)] :
        Distance(pair) <= rArgs.threshold }

\* the places of the guides of an axis in the returned list
GuidesOn(axis) == { i \in DOMAIN rOut.guides : rOut.guides[i].axis = axis }

\* C17: on each axis with a candidate/target pair within threshold, snapRect
\* takes a pair of least |target - candidate| among them: the returned rect
\* has that candidate on the target, and the guide of the axis has the
\* target's value and kind.
C17_SnapsToNearest ==
    (rOut # Null /\ rOut.op = "snapRect")
        => \A axis \in Axes :
             PairsWithin(axis) # {}
                => \E pair \in PairsWithin(axis) :
                     /\ \A other \in PairsWithin(axis) : Distance(pair) <= Distance(other)
                     /\ LineOf(rOut.rect, pair.key) = pair.target.value
                     /\ \E i \in GuidesOn(axis) :
                          /\ rOut.guides[i].value = pair.target.value
                          /\ rOut.guides[i].kind = pair.target.kind

\* A move that snapped x over a distance, to a third, with a farther pair
\* also within threshold, and a resize that snapped its right edge.
C17_Witness ==
    /\ rOut # Null /\ rOut.op = "snapRect"
    /\ \/ /\ rArgs.mode = "move"
          /\ rOut.rect.x # rArgs.rect.x
          /\ \E i \in GuidesOn("x") : rOut.guides[i].kind = "third"
          /\ \E p, q \in PairsWithin("x") : Distance(p) < Distance(q)
       \/ /\ rArgs.mode = "resize"
          /\ rOut.rect.w > rArgs.rect.w
          /\ rOut.rect.x = rArgs.rect.x
          /\ \E p, q \in PairsWithin("x") : Distance(p) < Distance(q)

\* C18: snapRect returns at most one guide per axis; on an axis with no
\* candidate/target pair within threshold it returns no guide and leaves the
\* position and the size of that axis as they were given.
C18_NoPairNoSnap ==
    (rOut # Null /\ rOut.op = "snapRect")
        => /\ \A axis \in Axes : Cardinality(GuidesOn(axis)) <= 1
           /\ Len(rOut.guides) <= 2
           /\ PairsWithin("x") = {}
                => /\ GuidesOn("x") = {}
                   /\ rOut.rect.x = rArgs.rect.x /\ rOut.rect.w = rArgs.rect.w
           /\ PairsWithin("y") = {}
                => /\ GuidesOn("y") = {}
                   /\ rOut.rect.y = rArgs.rect.y /\ rOut.rect.h = rArgs.rect.h

\* A resize by the n handle that snapped the top edge and left x alone,
\* though the left edge was within threshold of a target off it.
C18_Witness ==
    /\ rOut # Null /\ rOut.op = "snapRect"
    /\ rArgs.mode = "resize" /\ rArgs.handle = <<"n">>
    /\ PairsWithin("x") = {} /\ PairsWithin("y") # {}
    /\ GuidesOn("x") = {} /\ GuidesOn("y") # {}
    /\ rOut.rect.y # rArgs.rect.y
    /\ \E t \in TargetsOf(rArgs.bounds, "x") :
         /\ t.value # rArgs.rect.x
         /\ Abs(t.value - rArgs.rect.x) <= rArgs.threshold

-----------------------------------------------------------------------------
(* Claims about every engine operation (SpecMove, SpecRotate, SpecSnap) *)

\* C15: the rect an engine operation returns has w > 0 and h > 0, for an
\* input rect of at least 1 x 1 and bounds of positive size.
C15_PositiveSize ==
    rOut # Null => rOut.rect.w > 0 /\ rOut.rect.h > 0

-----------------------------------------------------------------------------
(* Claims about the history operations as object code (SpecHeap) *)

\* the state the call was given, and its two arrays, as the heap holds them
InputState(heap) ==
    [past |-> heap[heap[rArgs.state].past].items,
     present |-> heap[rArgs.state].present,
     future |-> heap[heap[rArgs.state].future].items]

\* the documented no-op cases: undo with nothing to undo, redo with nothing
\* to redo
NoOpCall ==
    \/ rOut.op = "undoHistory" /\ InputState(rArgs.heap).past = << >>
    \/ rOut.op = "redoHistory" /\ InputState(rArgs.heap).future = << >>

\* C19: pushHistory, undoHistory and redoHistory do not mutate their input:
\* after the call the input state and its past and future arrays hold what
\* they held before it, in the same order, and the result is a new state,
\* except in the no-op cases, where it is the input state.
C19_InputNotMutated ==
    (rOut # Null /\ rOut.op \in {"pushHistory", "undoHistory", "redoHistory"})
        => /\ \A ref \in DOMAIN rArgs.heap : rOut.heap[ref] = rArgs.heap[ref]
           /\ InputState(rOut.heap) = InputState(rArgs.heap)
           /\ IF NoOpCall THEN rOut.ref = rArgs.state
                          ELSE rOut.ref \notin DOMAIN rArgs.heap

\* An undo with two past states and a redo chain, which returned a new state
\* with one past state less.
C19_Witness ==
    /\ rOut # Null /\ rOut.op = "undoHistory"
    /\ Len(InputState(rArgs.heap).past) = 2
    /\ Len(InputState(rArgs.heap).future) > 0
    /\ rOut.ref # rArgs.state
    /\ Len(rOut.heap[rOut.heap[rOut.ref].past].items) = 1

-----------------------------------------------------------------------------
(* Claims about isDefaultAdjustments (SpecAdjust) *)

\* a field of the argument, with a null argument and a missing or undefined
\* field taken as 0
FieldOrZero(adjustments, key) ==
    IF adjustments = Null THEN 0
    ELSE IF key \notin DOMAIN adjustments THEN 0
    ELSE IF adjustments[key] = undefined THEN 0
    ELSE adjustments[key]

\* C20: isDefaultAdjustments is true for {0, 0, 0}, for a null or undefined
\* argument and for an argument whose fields are missing or undefined, each
\* taken as 0; it is false exactly when some field has an absolute value of
\* 1e-4 or more.
C20_DefaultWithinEpsilon ==
    (rOut # Null /\ rOut.op = "isDefaultAdjustments")
        => rOut.result = (\A key \in DOMAIN DEFAULT_ADJUSTMENTS :
                            Abs(FieldOrZero(rArgs, key)) < EPSILON)

-----------------------------------------------------------------------------
(* Claims about rectFromPointsWithAspect (SpecPoints) *)

\* C21: with a positive aspect, rectFromPointsWithAspect(a, b, aspect) returns
\* a rect with w = aspect * h that lies within rectFromPoints(a, b), keeps
\* one of its two dimensions, and has a as a corner: a.x is its left edge when
\* b.x >= a.x and its right edge otherwise, and likewise for y.  With aspect
\* null, zero or negative it returns rectFromPoints(a, b).
C21_AspectRectAnchoredAtStart ==
    (rOut # Null /\ rOut.op = "rectFromPointsWithAspect")
        => LET r == rOut.rect
               a == rArgs.a
               b == rArgs.b
               aspect == rArgs.aspect
               box == Rect(Min(a.x, b.x), Min(a.y, b.y),
                           Max(a.x, b.x) - Min(a.x, b.x), Max(a.y, b.y) - Min(a.y, b.y))
           IN  IF aspect # Null /\ aspect.num > 0
               THEN /\ r.w * aspect.den = aspect.num * r.h
                    /\ Contained(r, rectFromPoints(a, b))
                    /\ rectFromPoints(a, b) = box
                    /\ r.w = box.w \/ r.h = box.h
                    /\ IF b.x >= a.x THEN r.x = a.x ELSE r.x + r.w = a.x
                    /\ IF b.y >= a.y THEN r.y = a.y ELSE r.y + r.h = a.y
               ELSE r = box /\ r = rectFromPoints(a, b)

\* A drag up and to the left, wider than the aspect allows: the width is
\* shrunk and the rect hangs from a, off the left edge of the two points' box.
C21_Witness ==
    /\ rOut # Null /\ rOut.op = "rectFromPointsWithAspect"
    /\ rArgs.aspect # Null /\ rArgs.aspect.num > 0
    /\ rArgs.b.x < rArgs.a.x /\ rArgs.b.y < rArgs.a.y
    /\ rOut.rect.w > 0
    /\ rOut.rect.w < rArgs.a.x - rArgs.b.x
    /\ rOut.rect.x > rArgs.b.x
    /\ rOut.rect.h = rArgs.a.y - rArgs.b.y

-----------------------------------------------------------------------------
(* Claims about the aspect resizeCropRect uses (SpecResize) *)

\* the call of rArgs with other modifiers
ResizeWith(modifiers) ==
    resizeCropRect(rArgs.rect, rArgs.handle, rArgs.delta, modifiers,
                   rArgs.bounds, rArgs.allowOutside)

\* C22: with square false, a zero or negative aspectRatio gives the result of
\* the same call with aspectRatio null; with square true the result is that
\* of the aspect 1, whatever aspectRatio is.
C22_NonPositiveAspectIsNone ==
    rOut # Null
        => LET m == rArgs.modifiers
           IN  /\ (~m.square /\ m.aspectRatio # Null /\ m.aspectRatio.num <= 0)
                     => rOut = ResizeWith([m EXCEPT !.aspectRatio = Null])
               /\ m.square
                     => rOut = ResizeWith([m EXCEPT !.square = FALSE,
                                                    !.aspectRatio = Ratio(1, 1)])

\* A call with a negative aspectRatio whose result the aspect 1:2 or 3:2
\* would have changed, and a square call with the aspectRatio 3:2 whose
\* result differs from the one of 3:2 alone.
C22_Witness ==
    /\ rOut # Null
    /\ LET m == rArgs.modifiers
       IN  \/ /\ ~m.square /\ m.aspectRatio # Null /\ m.aspectRatio.num < 0
              /\ rOut # ResizeWith([m EXCEPT !.aspectRatio = Ratio(1, 2)])
              /\ rOut # ResizeWith([m EXCEPT !.aspectRatio = Ratio(3, 2)])
              /\ rOut.w # rArgs.rect.w
           \/ /\ m.square /\ m.aspectRatio = Ratio(3, 2)
              /\ rOut # ResizeWith([m EXCEPT !.square = FALSE])
              /\ rOut.w = rOut.h

-----------------------------------------------------------------------------
(* Claims about the edges resizeCropRect leaves alone (SpecResize) *)

\* a resize that is not symmetric and has no aspect constraint, of a rect
\* that lies within the bounds (if any)
PlainResizeWithin ==
    /\ ~rArgs.modifiers.symmetric
    /\ ~rArgs.modifiers.square
    /\ rArgs.modifiers.aspectRatio = Null \/ rArgs.modifiers.aspectRatio.num <= 0
    /\ rArgs.bounds = Null \/ Contained(rArgs.rect, rArgs.bounds)

\* C25: a plain resize of a rect within bounds leaves every edge the handle
\* does not name where it was, for every delta and allowOutside: left unless
\* the handle has w, right unless e, top unless n, bottom unless s.
C25_UnnamedEdgesStay ==
    (rOut # Null /\ PlainResizeWithin)
        => /\ handleHas(rArgs.handle, "w") \/ rOut.x = rArgs.rect.x
           /\ handleHas(rArgs.handle, "e") \/ rOut.x + rOut.w = rArgs.rect.x + rArgs.rect.w
           /\ handleHas(rArgs.handle, "n") \/ rOut.y = rArgs.rect.y
           /\ handleHas(rArgs.handle, "s") \/ rOut.y + rOut.h = rArgs.rect.y + rArgs.rect.h

\* The e handle pushed left onto the left edge of a rect one pixel wide,
\* inside bounds that are enforced: the minimum size holds the right edge and
\* the left edge has not moved.
C25_Witness ==
    /\ rOut # Null /\ PlainResizeWithin
    /\ rArgs.handle = <<"e">> /\ rArgs.delta.x < 0 /\ rArgs.delta.y # 0
    /\ rArgs.rect.w = MIN_SIZE
    /\ rArgs.bounds # Null /\ ~rArgs.allowOutside
    /\ rOut = rArgs.rect

-----------------------------------------------------------------------------
(* Claims about unrotateRectToOriginal (SpecRotate) *)

\* C26: for every rotation of 0, 90, 180, 270, base size W x H and rect r,
\* unrotateRectToOriginal(rotateRect(r, rotation, W, H), rotation, W, H) is r.
C26_UnrotateInvertsRotate ==
    (rOut # Null /\ rOut.op = "unrotateRectToOriginal") => rOut.rect = rArgs.rect

\* A quarter turn of a rect that is not square on a base that is not square,
\* which moved the rect, and from which it came back.
C26_Witness ==
    /\ rOut # Null /\ rOut.op = "unrotateRectToOriginal"
    /\ rArgs.rotation \in {90, 270}
    /\ rArgs.width # rArgs.height
    /\ rArgs.rect.w # rArgs.rect.h
    /\ rOut.rotated # rArgs.rect
    /\ rOut.rect = rArgs.rect

-----------------------------------------------------------------------------
(* Claims about a move gesture (SpecDrag) *)

\* C28: with allowOutside false and a start rect no larger than bounds,
\* moveCropRect followed by snapRect in move mode returns a rect that lies
\* inside bounds and has the w and h of the start rect, for every delta and
\* threshold.
C28_SnappedMoveStaysInside ==
    (/\ rOut # Null /\ rOut.op = "onPointerMove: moving"
     /\ ~rArgs.allowOutside
     /\ rArgs.startRect.w <= rArgs.bounds.w
     /\ rArgs.startRect.h <= rArgs.bounds.h)
        => /\ Contained(rOut.rect, rArgs.bounds)
           /\ rOut.rect.w = rArgs.startRect.w
           /\ rOut.rect.h = rArgs.startRect.h

\* A move that the bounds clamped and the snap then shifted along y, to a
\* line that is not an edge of bounds.
C28_Witness ==
    /\ rOut # Null /\ rOut.op = "onPointerMove: moving"
    /\ ~rArgs.allowOutside
    /\ rArgs.startRect.w <= rArgs.bounds.w
    /\ rArgs.startRect.h <= rArgs.bounds.h
    /\ rOut.moved # Translated(rArgs.startRect, rArgs.delta)
    /\ rOut.rect.y # rOut.moved.y
    /\ \E i \in DOMAIN rOut.guides :
         rOut.guides[i].axis = "y" /\ rOut.guides[i].kind # "edge"

-----------------------------------------------------------------------------
(* Claims about the rotation of the editor (Spec) *)

\* every TransformState the history holds
HistoryStates ==
    {history.present}
        \cup { history.past[i] : i \in DOMAIN history.past }
        \cup { history.future[i] : i \in DOMAIN history.future }

\* C23: the rotation of history.present and of every state in past and future
\* is 0, 90, 180 or 270, and rotateBy(delta) makes the present rotation the
\* one before it plus delta, modulo 360.
C23_RotationNormalized ==
    /\ [](\A state \in HistoryStates : state.rotation \in {0, 90, 180, 270})
    /\ [][\A delta \in {90, -90} :
            rotateBy(delta)
                => /\ history'.present.rotation
                        = (history.present.rotation + delta + 360) % 360
                   /\ history'.past = Append(history.past, history.present)]_vars

\* A quarter turn left that wrapped from 0 to 270, and a quarter turn right
\* that wrapped back to 0.
C23_Witness ==
    /\ lastOp.op = "rotateBy"
    /\ history.present.rotation = 0
    /\ Len(history.past) = 2
    /\ history.past[2].rotation = 270
    /\ history.past[1].rotation = 0
    /\ steps = 5

-----------------------------------------------------------------------------
(* Claims about applying a crop (Spec) *)

\* data-crop-active and data-crop-applied
CropActive == cropRect # Null
CropApplied == transformOf(history).cropRect # Null

\* C24: applyCrop with a draft pushes one history entry, whose cropRect is the
\* draft, and clears the draft; an undo right after it brings back the
\* applied crop from before the apply and leaves the draft null; applyCrop
\* with no draft changes nothing.
C24_ApplyCropThenUndo ==
    /\ [][applyCrop
            => /\ CropActive
               /\ history' = [past |-> Append(history.past, history.present),
                              present |-> [history.present EXCEPT !.cropRect = cropRect],
                              future |-> << >>]
               /\ cropRect' = Null]_vars
    /\ [](lastOp.op = "applyCrop" => CropApplied /\ ~CropActive)
    /\ [][(lastOp.op = "applyCrop" /\ handleUndo)
            => /\ history'.present = history.past[Len(history.past)]
               /\ Len(history'.past) = Len(history.past) - 1
               /\ history'.future[1] = history.present
               /\ cropRect' = Null]_vars
    /\ [][applyCropNoDraft
            => UNCHANGED <<image, history, cropRect, allowOutside,
                           adjustBaseRef, straightenBaseRef, exportCall>>]_vars

\* After a first crop was applied and undone: no crop is applied, no draft is
\* active, and the redo holds the crop.
C24_Witness ==
    /\ lastOp.op = "handleUndo"
    /\ ~CropApplied /\ ~CropActive
    /\ history.past = << >>
    /\ Len(history.future) = 1
    /\ history.future[1].cropRect # Null
    /\ history.future[1] = [history.present EXCEPT !.cropRect = history.future[1].cropRect]

-----------------------------------------------------------------------------
(* Claims about a slider gesture crossed by undo or redo (Spec) *)

\* C27: once a slider gesture is over, whatever begin, change, undo, redo and
\* end-of-gesture events it was made of, the state that was present when it
\* began is history.present or an element of past or future.
C27_PreGestureStateKept ==
    gesture.phase \in {"committed", "discarded", "ended"}
        => gesture.base \in HistoryStates

-----------------------------------------------------------------------------
(* Claims about the one timeline of the history engine (SpecHistory) *)

\* past ++ [present] ++ future
TimelineOf(state) == state.past \o <<state.present>> \o state.future

\* C29: undoHistory and redoHistory only move the cursor along one timeline:
\* past ++ [present] ++ future is the same before and after the call, a redo
\* of an undo gives the state back whenever past is non-empty, and an undo of
\* a redo gives it back whenever future is non-empty.
C29_OneTimeline ==
    /\ lastCall.op \in {"undoHistory", "redoHistory"}
            => TimelineOf(hstate) = TimelineOf(lastCall.arg)
    /\ Len(hstate.past) > 0 => redoHistory(undoHistory(hstate)) = hstate
    /\ Len(hstate.future) > 0 => undoHistory(redoHistory(hstate)) = hstate

\* A redoHistory call that moved the cursor from the middle of the timeline
\* to another place in the middle of it.
C29_Witness ==
    /\ lastCall.op = "redoHistory"
    /\ Len(lastCall.arg.past) >= 1
    /\ Len(lastCall.arg.future) >= 2
    /\ Len(hstate.past) >= 2
    /\ Len(hstate.future) >= 1
    /\ hstate.present # lastCall.arg.present

-----------------------------------------------------------------------------
(* Claims about a quarter turn and its opposite (Spec) *)

\* the state that was present before the handler that ran last pushed its own
BeforeLast == history.past[Len(history.past)]

\* the handler that ran last was rotateBy(-delta)
RotatedBy(delta) ==
    /\ lastOp.op = "rotateBy"
    /\ Len(history.past) >= 1
    /\ history.present.rotation = normalizeRotation(BeforeLast.rotation + delta)

\* C30: rotateBy(90) right after rotateBy(-90), or rotateBy(-90) right after
\* rotateBy(90), leaves history.present with the rotation and the applied
\* cropRect it had before the pair and the draft crop rect as it was before
\* the pair, and the pair adds exactly two entries to history.past.
C30_OppositeTurnsCancel ==
    [][\A delta \in {90, -90} :
        (RotatedBy(-delta) /\ rotateBy(delta))
            => /\ history'.present.rotation = BeforeLast.rotation
               /\ history'.present.cropRect = BeforeLast.cropRect
               /\ cropRect' = lastOp.draft
               /\ history'.past = Append(history.past, history.present)
               /\ SubSeq(history'.past, 1, Len(history'.past) - 2)
                    = SubSeq(history.past, 1, Len(history.past) - 1)]_vars

=============================================================================
